---- MODULE Spec2Model ----
(***************************************************************************)
(* Bezier-chain geometry and discretization engine of the heat-map track   *)
(* creator (src/utils/bezierChain.ts, which also holds trackUtils).        *)
(*                                                                         *)
(* Numbers.  The program computes in IEEE doubles.  The model computes in  *)
(* exact integers and rationals:                                           *)
(*   - coordinates of control points and handles are integers;             *)
(*   - a curve parameter t and a distance are rationals [num, den]; a      *)
(*     denominator 0 is what a division by zero gives in the program:      *)
(*     0/0 is NaN, -n/0 is -Infinity, n/0 is +Infinity;                    *)
(*   - a point evaluated at t = a/b is carried as its numerators over b^3, *)
(*     a tangent as its numerators over b^2;                               *)
(*   - lengths along a segment walked with `samples` samples are in units  *)
(*     of 1/samples^3, and Math.sqrt is the integer square root in that    *)
(*     unit.                                                               *)
(* Identifiers made by generateId() are random strings and are left out.   *)
(***************************************************************************)
EXTENDS Integers, Sequences, FiniteSets, TLC

\* ---------------------------------------------------------------- bounds
MaxPoints == 3
MaxSpaces == 3
Samples == 4
MaxRing == 5
MaxSpacing == 3
MaxTrackSpaces == 2
MaxCorners == 2
MaxSpotCount == 5
MaxEdits == 2
MaxEditorPoints == 4
MaxIds == 2
MaxLapSpaces == 4
MaxLapCorners == 3
MaxCurvatureSteps == 80

VARIABLES
  pc,          \* the operation applied last
  points,      \* the authored control points
  target,      \* targetSpacesPerLap
  threshold,   \* curvatureThreshold of autoSuggestCorners
  spacing,     \* minCornerSpacing of autoSuggestCorners
  segments,    \* the chain made of the control points
  backPoints,  \* the points read back from the chain
  spaces,      \* the Spaces of the chain
  corners,     \* the suggested Corners
  track,       \* the assembled TrackData
  errors,      \* the validator's error list
  query,       \* the targetDistance asked of findTForDistance
  found,       \* what findTForDistance returned
  givenTangent,   \* the tangent handed to generateSpotsForSpace
  givenWidth,     \* trackWidth of discretizePathToSpaces / generateSpotsForSpace
  givenSpotCount, \* spotCount of discretizePathToSpaces / generateSpotsForSpace
  madeSpots,      \* the Spots generateSpotsForSpace returned
  heap,           \* the Point objects of a chain: reference -> coordinates
  segmentObjects, \* the BezierSegment objects of a chain: fields -> references
  givenChain,     \* the array handed to enforceContinuity
  returnedChain,  \* the array enforceContinuity returned
  settings,       \* the ContinuitySettings handed to enforceContinuity
  isDrawing,      \* SplineEditor: a stroke is being drawn
  currentPath,    \* SplineEditor: the mouse points of the stroke
  storedTrackData, \* SplineEditor: trackData, the stored track, <<>> for null
  currentTrack,   \* SplineEditor: editorState.currentTrack, <<>> for null
  raceSegments,   \* SplineEditor: the target space count of the toolbar
  selectedPointIndex, \* SplineEditor: the selected control point, -1 for null
  splineToolMode, \* SplineEditor: editorState.splineToolMode
  edits,          \* the number of editor events handled so far
  editingMode,    \* SplineEditor: editorState.editingMode
  cornerToolMode, \* SplineEditor: editorState.cornerToolMode
  selectedCorner, \* SplineEditor: editorState.selectedCorner, an id, 0 for null
  nextId,         \* the id generateId gives next
  givenClosed,    \* RaceTrack: the closed flag of the track drawn
  givenCorners,   \* RaceTrack: the corners of the track drawn
  givenSpacesCount,  \* RaceTrack: spaces.length
  givenSpaceLength,  \* RaceTrack: segmentArcLength
  innerSideSegments, \* RaceTrack: what buildInnerSideSegments returned
  innerSidePaths,    \* RaceTrack: the sections buildInnerSidePaths went through
  exportedData,   \* the text exportTrackData returned, as the value it encodes
  importedTrack   \* the TrackData importTrackData returned, <<>> before

\* The arguments and the result of generateSpotsForSpace.
spotVars == <<givenTangent, givenWidth, givenSpotCount, madeSpots>>

\* The object graph enforceContinuity works on, its argument and its result.
continuityVars == <<heap, segmentObjects, givenChain, returnedChain, settings>>

\* The state of the SplineEditor component.
editorVars == <<isDrawing, currentPath, storedTrackData, currentTrack, raceSegments,
                selectedPointIndex, splineToolMode, edits>>

\* The corner editing state of the SplineEditor component.
cornerEditVars == <<editingMode, cornerToolMode, selectedCorner, nextId>>

\* The arguments and the results of RaceTrack's inner side functions.
renderVars == <<givenClosed, givenCorners, givenSpacesCount, givenSpaceLength,
                innerSideSegments, innerSidePaths>>

\* The text and the track of an export followed by an import.
serialVars == <<exportedData, importedTrack>>

laterVars == <<cornerEditVars, renderVars, serialVars>>

\* What the operations of the track pipeline never write.
restVars == <<spotVars, continuityVars, editorVars, laterVars>>

vars == <<pc, points, target, threshold, spacing, segments, backPoints, spaces,
          corners, track, errors, query, found, restVars>>

\* ------------------------------------------------------------- arithmetic
Abs(n) == IF n < 0 THEN -n ELSE n

Min(a, b) == IF a <= b THEN a ELSE b

Max(a, b) == IF a >= b THEN a ELSE b

RECURSIVE GCD(_, _)
GCD(a, b) == IF b = 0 THEN Abs(a) ELSE GCD(b, a % b)

RECURSIVE SqrtSearch(_, _, _)
SqrtSearch(n, lo, hi) ==
  IF lo >= hi THEN lo
  ELSE LET mid == (lo + hi + 1) \div 2
       IN  IF mid * mid <= n THEN SqrtSearch(n, mid, hi)
           ELSE SqrtSearch(n, lo, mid - 1)

\* Math.sqrt on a length already scaled to the length unit.
Sqrt(n) == SqrtSearch(n, 0, Min(n, 46340))

\* A rational in lowest terms with a non-negative denominator.
Rat(n, d) ==
  IF d = 0 THEN [num |-> (IF n > 0 THEN 1 ELSE IF n < 0 THEN -1 ELSE 0), den |-> 0]
  ELSE LET g == GCD(n, d)
           s == IF d < 0 THEN -1 ELSE 1
       IN  [num |-> s * (n \div g), den |-> s * (d \div g)]

Zero == [num |-> 0, den |-> 1]

One == [num |-> 1, den |-> 1]

NaN == [num |-> 0, den |-> 0]

IsNaN(r) == r.den = 0 /\ r.num = 0

IsFinite(r) == r.den # 0

RatEq(r, s) == IsFinite(r) /\ IsFinite(s) /\ r.num * s.den = s.num * r.den

RatLeq(r, s) == IsFinite(r) /\ IsFinite(s) /\ r.num * s.den <= s.num * r.den

\* ------------------------------------------------------------ data model
Pt(x, y) == [x |-> x, y |-> y]

\* An optional handle is a sequence of at most one Point.
NoHandle == <<>>

Handle(x, y) == <<Pt(x, y)>>

BezierPoint(x, y, hIn, hOut) == [x |-> x, y |-> y, handleIn |-> hIn, handleOut |-> hOut]

\* The Point part of a BezierPoint.
AsPoint(p) == Pt(p.x, p.y)

\* `handle || point`: the handle when there is one, the point itself otherwise.
HandleOr(handle, p) == IF handle = NoHandle THEN AsPoint(p) ELSE handle[1]

\* ------------------------------------------------------- Bezier chain model
\* pointsToBezierSegments(points, continuity): one segment per point, the last
\* one running back to point 0; no segment for fewer than 2 points.
PointsToSegmentsNoGuard(pts, continuity) ==
  [i \in 1..Len(pts) |->
     LET current == pts[i]
         next    == pts[(i % Len(pts)) + 1]
     IN  [startPoint |-> current,
          endPoint   |-> next,
          cp1        |-> HandleOr(current.handleOut, current),
          cp2        |-> HandleOr(next.handleIn, next),
          continuity |-> IF i = 1 THEN continuity ELSE "C0"]]

\* An open chain: no segment from the last point back to point 0.
PointsToSegmentsOpen(pts, continuity) ==
  IF Len(pts) < 2 THEN <<>>
  ELSE SubSeq(PointsToSegmentsNoGuard(pts, continuity), 1, Len(pts) - 1)

PointsToSegmentsGuard3(pts, continuity) ==
  IF Len(pts) < 3 THEN <<>> ELSE PointsToSegmentsNoGuard(pts, continuity)

pointsToBezierSegments(pts, continuity) ==
  IF Len(pts) < 2 THEN <<>> ELSE PointsToSegmentsNoGuard(pts, continuity)

\* bezierSegmentsToPoints(segments): the start point of every segment with its
\* cp1 as outbound handle, then the end point of the last segment with its cp2
\* as inbound handle.
bezierSegmentsToPoints(segs) ==
  IF Len(segs) = 0 THEN <<>>
  ELSE [i \in 1..Len(segs) |->
          BezierPoint(segs[i].startPoint.x, segs[i].startPoint.y,
                      segs[i].startPoint.handleIn, <<segs[i].cp1>>)]
       \o << BezierPoint(segs[Len(segs)].endPoint.x, segs[Len(segs)].endPoint.y,
                         <<segs[Len(segs)].cp2>>, segs[Len(segs)].endPoint.handleOut) >>

\* ------------------------------------------------------- curve primitives
\* evaluateCubicBezier at t = a/b: the numerators of the point over b^3.
evaluateCubicBezier(p0, cp1, cp2, p1, a, b) ==
  LET m == b - a
  IN  [x |-> m*m*m * p0.x + 3*m*m*a * cp1.x + 3*m*a*a * cp2.x + a*a*a * p1.x,
       y |-> m*m*m * p0.y + 3*m*m*a * cp1.y + 3*m*a*a * cp2.y + a*a*a * p1.y]

\* Euclidean distance of two points given in the length unit.
Dist(p, q) ==
  LET dx == p.x - q.x
      dy == p.y - q.y
  IN  Sqrt(dx * dx + dy * dy)

\* Length of the i-th of `samples` chords of a segment, i in 1..samples.
ChordLength(segment, i, samples) ==
  Dist(evaluateCubicBezier(segment.startPoint, segment.cp1, segment.cp2,
                           segment.endPoint, i, samples),
       evaluateCubicBezier(segment.startPoint, segment.cp1, segment.cp2,
                           segment.endPoint, i - 1, samples))

\* ------------------------------------------------------- arc-length engine
calculateSegmentArcLength(segment, samples) ==
  LET RECURSIVE Walk(_, _)
      Walk(i, length) ==
        IF i > samples THEN length
        ELSE Walk(i + 1, length + ChordLength(segment, i, samples))
  IN  Walk(1, 0)

calculateChainArcLength(segs, samples) ==
  LET RECURSIVE Sum(_, _)
      Sum(i, totalLength) ==
        IF i > Len(segs) THEN totalLength
        ELSE Sum(i + 1, totalLength + calculateSegmentArcLength(segs[i], samples))
  IN  Sum(1, 0)

\* A t that falls as the distance into the segment grows.
NearerIsLaterInSegment(segment, num, den, samples) ==
  IF num > 0 THEN Rat(den, den + num) ELSE One

\* findTForDistanceInSegment(segment, targetDistance, samples): walks the
\* chords; in the first chord that reaches the target, interpolates t linearly.
\* targetDistance is num/den in the length unit.
findTForDistanceInSegment(segment, num, den, samples) ==
  LET RECURSIVE Walk(_, _)
      Walk(i, accumulatedDistance) ==
        IF i > samples THEN One
        ELSE LET segmentLength == ChordLength(segment, i, samples)
             IN  IF (accumulatedDistance + segmentLength) * den >= num
                 THEN \* ratio = (target - accumulated) / segmentLength;
                      \* t = (i - 1) / samples + ratio / samples
                      Rat((i - 1) * den * segmentLength
                            + (num - accumulatedDistance * den),
                          samples * den * segmentLength)
                 ELSE Walk(i + 1, accumulatedDistance + segmentLength)
  IN  Walk(1, 0)

\* findTForDistance(segments, targetDistance, samples): segmentIndex is 0-based
\* as in the program; segments[segmentIndex + 1] is that segment here.
findTForDistance(segs, num, den, samples) ==
  LET RECURSIVE Walk(_, _)
      Walk(i, accumulatedDistance) ==
        IF i > Len(segs) THEN [segmentIndex |-> Len(segs) - 1, t |-> One]
        ELSE LET segmentLength == calculateSegmentArcLength(segs[i], samples)
             IN  IF (accumulatedDistance + segmentLength) * den >= num
                 THEN [segmentIndex |-> i - 1,
                       t |-> findTForDistanceInSegment(
                               segs[i], num - accumulatedDistance * den, den, samples)]
                 ELSE Walk(i + 1, accumulatedDistance + segmentLength)
  IN  Walk(1, 0)

\* calculateChainTangent(segments, segmentIndex, t): the numerators of the
\* tangent over t.den^2; nan when t is not a finite number.
calculateChainTangent(segs, segmentIndex, t) ==
  IF segmentIndex < 0 \/ segmentIndex >= Len(segs) THEN [x |-> 0, y |-> 0, nan |-> FALSE]
  ELSE IF ~IsFinite(t) THEN [x |-> 0, y |-> 0, nan |-> TRUE]
  ELSE LET s == segs[segmentIndex + 1]
           a == t.num
           m == t.den - t.num
       IN  [x |-> -3*m*m * s.startPoint.x + 3*m*m * s.cp1.x - 6*m*a * s.cp1.x
                  + 6*m*a * s.cp2.x - 3*a*a * s.cp2.x + 3*a*a * s.endPoint.x,
            y |-> -3*m*m * s.startPoint.y + 3*m*m * s.cp1.y - 6*m*a * s.cp1.y
                  + 6*m*a * s.cp2.y - 3*a*a * s.cp2.y + 3*a*a * s.endPoint.y,
            nan |-> FALSE]

\* Fixed-point scale of the tangent and second derivative inside
\* calculateCurvature, and of the curvature it returns.
CurvatureFix == 64

CurvatureScale == 1000

\* calculateCurvatureAtChainPosition / calculateCurvature: |T x D| / |T|^3 with
\* T the tangent and D the second derivative, 0 for a zero tangent.  The value
\* is irrational in general; it is computed here in fixed point and returned in
\* thousandths, rounded down.
calculateCurvatureAtChainPosition(segs, segmentIndex, t) ==
  IF segmentIndex < 0 \/ segmentIndex >= Len(segs) THEN Zero
  ELSE IF ~IsFinite(t) THEN NaN
  ELSE LET s  == segs[segmentIndex + 1]
           T  == calculateChainTangent(segs, segmentIndex, t)
           a  == t.num
           b  == t.den
           m  == b - a
           ddx == 6*m * s.startPoint.x - 12*m * s.cp1.x + 6*m * s.cp2.x
                  + 6*a * s.cp1.x - 12*a * s.cp2.x + 6*a * s.endPoint.x
           ddy == 6*m * s.startPoint.y - 12*m * s.cp1.y + 6*m * s.cp2.y
                  + 6*a * s.cp1.y - 12*a * s.cp2.y + 6*a * s.endPoint.y
           tx == ((T.x \div b) * CurvatureFix) \div b
           ty == ((T.y \div b) * CurvatureFix) \div b
           sx == (ddx * CurvatureFix) \div b
           sy == (ddy * CurvatureFix) \div b
           n2 == tx * tx + ty * ty
           n1 == Sqrt(n2)
           crossProduct == Abs(tx * sy - ty * sx)
       IN  IF T.x = 0 /\ T.y = 0 THEN Zero
           ELSE IF n1 = 0 THEN Zero
           ELSE Rat((((crossProduct * 10) \div n1) * ((CurvatureScale \div 10) * CurvatureFix))
                      \div n2,
                    CurvatureScale)

RatLess(r, s) == IsFinite(r) /\ IsFinite(s) /\ r.num * s.den < s.num * r.den

\* ------------------------------------------------------------ discretizer
\* generateSpotsForSpace(centerPosition, tangent, trackWidth, spotCount).  A
\* spot's position is centerPosition + perpendicular * offset; the model keeps
\* the lateral offset (i - (spotCount - 1) / 2) * trackWidth / (spotCount - 1).
GenerateSpotsLowerMiddle(tangent, trackWidth, spotCount) ==
  IF ~tangent.nan /\ tangent.x = 0 /\ tangent.y = 0 THEN <<>>
  ELSE [j \in 1..spotCount |->
          LET i == j - 1
              middle == (spotCount - 1) \div 2
          IN  [offset    |-> IF tangent.nan THEN NaN
                             ELSE Rat((2 * i - (spotCount - 1)) * trackWidth,
                                      2 * (spotCount - 1)),
               type      |-> IF i = middle THEN "race-line"
                             ELSE IF i = 0 \/ i = spotCount - 1 THEN "outer"
                             ELSE "inner",
               isOccupied |-> FALSE,
               spotIndex |-> i,
               isBlocking |-> i # middle /\ (i = 0 \/ i = spotCount - 1),
               slipstreamValue |-> IF i = middle THEN 0
                                   ELSE IF i = 0 \/ i = spotCount - 1 THEN 2
                                   ELSE 1]]

generateSpotsForSpace(tangent, trackWidth, spotCount) ==
  IF ~tangent.nan /\ tangent.x = 0 /\ tangent.y = 0 THEN <<>>
  ELSE [j \in 1..spotCount |->
          LET i == j - 1
          IN  [offset    |-> IF tangent.nan THEN NaN
                             ELSE Rat((2 * i - (spotCount - 1)) * trackWidth,
                                      2 * (spotCount - 1)),
               type      |-> IF i = spotCount \div 2 THEN "race-line"
                             ELSE IF i = 0 \/ i = spotCount - 1 THEN "outer"
                             ELSE "inner",
               isOccupied |-> FALSE,
               spotIndex |-> i,
               isBlocking |-> i # spotCount \div 2 /\ (i = 0 \/ i = spotCount - 1),
               slipstreamValue |-> IF i = spotCount \div 2 THEN 0
                                   ELSE IF i = 0 \/ i = spotCount - 1 THEN 2
                                   ELSE 1]]

DefaultTrackWidth == 100

DefaultSpotCount == 5

\* discretizePathToSpaces(bezierSegments, targetSpacesPerLap, trackWidth,
\* spotCount).  A Space's position is evaluateChainAtT(segments, segmentIndex, t);
\* the model keeps the pair (segmentIndex, t) it is evaluated at as `at`.
discretizePathToSpaces(segs, targetSpacesPerLap, trackWidth, spotCount) ==
  IF Len(segs) = 0 THEN <<>>
  ELSE LET totalLength == calculateChainArcLength(segs, Samples)
       IN  [n \in 1..targetSpacesPerLap |->
              LET spaceIndex == n - 1
                  \* targetDistance = spaceIndex * (totalLength / targetSpacesPerLap)
                  at         == findTForDistance(segs, spaceIndex * totalLength,
                                                 targetSpacesPerLap, Samples)
                  tangent    == calculateChainTangent(segs, at.segmentIndex, at.t)
                  curvature  == calculateCurvatureAtChainPosition(
                                  segs, at.segmentIndex, at.t)
              IN  [index    |-> spaceIndex,
                   at       |-> at,
                   spots    |-> generateSpotsForSpace(tangent, trackWidth, spotCount),
                   metadata |-> [isCornerLine  |-> FALSE,
                                 isStartFinish |-> FALSE,
                                 isStraight    |-> RatLess(curvature, Rat(1, 100)),
                                 curvature     |-> curvature,
                                 trackWidth    |-> trackWidth,
                                 surface       |-> "asphalt"]]]

\* -------------------------------------------------------- corner analyzer
\* The bands with the medium band starting at 0.2.
CornerTypeMediumFromOneFifth(curvature) ==
  IF curvature.num * 10 > 3 * curvature.den THEN "slow"
  ELSE IF curvature.num * 5 > curvature.den THEN "medium"
  ELSE IF curvature.num * 20 > curvature.den THEN "fast"
  ELSE "chicane"

determineCornerType(curvature) ==
  IF RatLess(Rat(3, 10), curvature) THEN "slow"
  ELSE IF RatLess(Rat(15, 100), curvature) THEN "medium"
  ELSE IF RatLess(Rat(5, 100), curvature) THEN "fast"
  ELSE "chicane"

\* Math.floor(6 - curvature * k) for a finite curvature.
FloorSixMinus(curvature, k) ==
  (6 * curvature.den - k * curvature.num) \div curvature.den

calculateSpeedLimit(curvature, cornerType) ==
  CASE cornerType = "slow"    -> Max(1, FloorSixMinus(curvature, 20))
    [] cornerType = "medium"  -> Max(2, FloorSixMinus(curvature, 15))
    [] cornerType = "fast"    -> Max(3, FloorSixMinus(curvature, 10))
    [] cornerType = "chicane" -> Max(2, FloorSixMinus(curvature, 12))
    [] OTHER -> 3

RatMin(r, s) == IF RatLeq(r, s) THEN r ELSE s

RatMax(r, s) == IF RatLeq(s, r) THEN r ELSE s

RatAdd(r, s) == Rat(r.num * s.den + s.num * r.den, r.den * s.den)

calculateCornerDifficulty(curvature, speedLimit) ==
  LET baseDifficulty == RatMin(Rat(10, 1), RatMax(One, Rat(30 * curvature.num, curvature.den)))
      speedPenalty   == RatMax(Zero, Rat(6 - speedLimit, 2))
  IN  RatMin(Rat(10, 1), RatAdd(baseDifficulty, speedPenalty))

calculateSuggestedGear(speedLimit) == Max(1, Min(6, speedLimit))

\* 6 - speedLimit without the floor of 1.
HeatPenaltyWithoutFloor(speedLimit) == 6 - speedLimit

calculateHeatPenalty(speedLimit) == Max(1, 6 - speedLimit)

calculateCornerRadius(curvature) ==
  IF RatLess(Zero, curvature) THEN Rat(curvature.den, curvature.num) ELSE Rat(1000, 1)

\* The candidates left in the order of their Spaces.
CandidatesInIndexOrder(cands) == cands

\* Array.prototype.sort((a, b) => b.curvature - a.curvature): a stable sort of
\* the candidate Spaces by descending curvature.
SortByCurvatureDescending(cands) ==
  LET RECURSIVE Insert(_, _)
      Insert(sorted, i) ==
        IF i > Len(cands) THEN sorted
        ELSE LET c == cands[i]
                 k == Cardinality({j \in 1..Len(sorted) :
                        RatLeq(c.metadata.curvature, sorted[j].metadata.curvature)})
             IN  Insert(SubSeq(sorted, 1, k) \o <<c>> \o SubSeq(sorted, k + 1, Len(sorted)),
                        i + 1)
  IN  Insert(<<>>, 1)

\* The spacing test of autoSuggestCorners between a candidate index and an
\* index already used.
TooClose(index, usedIndex, minCornerSpacing) ==
  Abs(index - usedIndex) < minCornerSpacing

MakeCorner(space) ==
  LET curvature  == space.metadata.curvature
      cornerType == determineCornerType(curvature)
      speedLimit == calculateSpeedLimit(curvature, cornerType)
  IN  [spaceIndex      |-> space.index,
       speedLimit      |-> speedLimit,
       at              |-> space.at,
       isAutoSuggested |-> TRUE,
       innerSide       |-> "left",
       cornerType      |-> cornerType,
       difficulty      |-> calculateCornerDifficulty(curvature, speedLimit),
       suggestedGear   |-> calculateSuggestedGear(speedLimit),
       heatPenalty     |-> calculateHeatPenalty(speedLimit),
       entryAngle      |-> 0,
       exitAngle       |-> 0,
       radius          |-> calculateCornerRadius(curvature)]

autoSuggestCorners(spcs, curvatureThreshold, minCornerSpacing) ==
  LET highCurvatureSpaces ==
        SortByCurvatureDescending(
          SelectSeq(spcs, LAMBDA sp : RatLess(curvatureThreshold, sp.metadata.curvature)))
      RECURSIVE Accept(_, _)
      Accept(i, acc) ==
        IF i > Len(highCurvatureSpaces) THEN acc
        ELSE LET space == highCurvatureSpaces[i]
                 tooClose == \E c \in 1..Len(acc) :
                               TooClose(space.index, acc[c].spaceIndex, minCornerSpacing)
             IN  IF tooClose THEN Accept(i + 1, acc)
                 ELSE Accept(i + 1, Append(acc, MakeCorner(space)))
  IN  Accept(1, <<>>)

\* createDefaultTrackMetadata(): the field the validator reads and the board
\* figures updateTrackMetadata derives; names, dates and tags are left out.
createDefaultTrackMetadata ==
  [startFinishSpaceIndex |-> 0,
   boardMetadata |-> [cornersPerLap |-> 0,
                      spacesPerLap  |-> 0,
                      trackLength   |-> 0,
                      averageSpeed  |-> Zero,
                      difficulty    |-> Rat(5, 1)]]

\* --------------------------------------------------------- track validator
calculateBoundingBox(segment) ==
  LET xs == {segment.startPoint.x, segment.cp1.x, segment.cp2.x, segment.endPoint.x}
      ys == {segment.startPoint.y, segment.cp1.y, segment.cp2.y, segment.endPoint.y}
  IN  [minX |-> CHOOSE v \in xs : \A w \in xs : v <= w,
       maxX |-> CHOOSE v \in xs : \A w \in xs : v >= w,
       minY |-> CHOOSE v \in ys : \A w \in ys : v <= w,
       maxY |-> CHOOSE v \in ys : \A w \in ys : v >= w]

segmentsIntersect(seg1, seg2) ==
  LET bbox1 == calculateBoundingBox(seg1)
      bbox2 == calculateBoundingBox(seg2)
  IN  ~(\/ bbox1.maxX < bbox2.minX
        \/ bbox1.minX > bbox2.maxX
        \/ bbox1.maxY < bbox2.minY
        \/ bbox1.minY > bbox2.maxY)

checkForSelfIntersections(segs) ==
  \E i \in 1..Len(segs) : \E j \in (i + 2)..Len(segs) :
     segmentsIntersect(segs[i], segs[j])

ErrNotClosed == <<"Track must form a closed loop">>

ErrNoSpaces == <<"Track must have at least one space">>

ErrStartFinish == <<"Start/Finish line must be within track bounds">>

ErrCornerBounds(corner) == <<"Corner at space is out of bounds", corner.spaceIndex>>

ErrCornerSpeed(corner) ==
  <<"Corner at space has invalid speed limit", corner.spaceIndex, corner.speedLimit>>

ErrNoSpots(space) == <<"Space has no spots", space.index>>

ErrRaceLine(space) == <<"Space must have exactly one race line spot", space.index>>

ErrSegments == <<"Track must have at least 3 Bezier segments">>

ErrSelfIntersect == <<"Track has self-intersections">>

\* The errors the corner loop pushes, in order.
CornerErrors(trackData) ==
  LET RECURSIVE Loop(_, _)
      Loop(i, errs) ==
        IF i > Len(trackData.corners) THEN errs
        ELSE LET corner == trackData.corners[i]
                 e1 == IF corner.spaceIndex >= Len(trackData.spaces)
                       THEN <<ErrCornerBounds(corner)>> ELSE <<>>
                 e2 == IF corner.speedLimit < 1 \/ corner.speedLimit > 6
                       THEN <<ErrCornerSpeed(corner)>> ELSE <<>>
             IN  Loop(i + 1, errs \o e1 \o e2)
  IN  Loop(1, <<>>)

\* The errors the space loop pushes, in order.
SpaceErrors(trackData) ==
  LET RECURSIVE Loop(_, _)
      Loop(i, errs) ==
        IF i > Len(trackData.spaces) THEN errs
        ELSE LET space == trackData.spaces[i]
                 raceLineSpots == SelectSeq(space.spots, LAMBDA spot : spot.type = "race-line")
                 e1 == IF Len(space.spots) = 0 THEN <<ErrNoSpots(space)>> ELSE <<>>
                 e2 == IF Len(raceLineSpots) # 1 THEN <<ErrRaceLine(space)>> ELSE <<>>
             IN  Loop(i + 1, errs \o e1 \o e2)
  IN  Loop(1, <<>>)

\* A validator that returns at its first failure.
ValidateFirstFailure(trackData) ==
  IF ~trackData.splinePath.closed THEN <<ErrNotClosed>>
  ELSE IF Len(trackData.spaces) = 0 THEN <<ErrNoSpaces>>
  ELSE IF trackData.metadata.startFinishSpaceIndex >= Len(trackData.spaces)
       THEN <<ErrStartFinish>>
  ELSE IF CornerErrors(trackData) # <<>> THEN <<CornerErrors(trackData)[1]>>
  ELSE IF SpaceErrors(trackData) # <<>> THEN <<SpaceErrors(trackData)[1]>>
  ELSE IF Len(trackData.splinePath.segments) < 3 THEN <<ErrSegments>>
  ELSE IF checkForSelfIntersections(trackData.splinePath.segments)
       THEN <<ErrSelfIntersect>>
  ELSE <<>>

validateTrackData(trackData) ==
     (IF ~trackData.splinePath.closed THEN <<ErrNotClosed>> ELSE <<>>)
  \o (IF Len(trackData.spaces) = 0 THEN <<ErrNoSpaces>> ELSE <<>>)
  \o (IF trackData.metadata.startFinishSpaceIndex >= Len(trackData.spaces)
      THEN <<ErrStartFinish>> ELSE <<>>)
  \o CornerErrors(trackData)
  \o SpaceErrors(trackData)
  \o (IF Len(trackData.splinePath.segments) < 3 THEN <<ErrSegments>> ELSE <<>>)
  \o (IF checkForSelfIntersections(trackData.splinePath.segments)
      THEN <<ErrSelfIntersect>> ELSE <<>>)

\* createSplinePathFromSegments(segments, color, strokeWidth, closed)
createSplinePathFromSegments(segs, closed) ==
  [segments |-> segs, closed |-> closed, points |-> bezierSegmentsToPoints(segs)]

\* ------------------------------------------------------------------ inputs
\* Control points the chains are authored from: two without handles, two with
\* the symmetric handles pointsToBezier gives a point of a smooth loop.
ControlPoints ==
  { BezierPoint(0, 0, NoHandle, NoHandle),
    BezierPoint(4, 0, Handle(3, -1), Handle(5, 1)),
    BezierPoint(4, 4, Handle(5, 4), Handle(3, 4)),
    BezierPoint(0, 4, NoHandle, NoHandle) }

BoundedSeqs(S, n) == UNION {[1..m -> S] : m \in 0..n}

DefaultCurvatureThreshold == Rat(1, 10)

DefaultMinCornerSpacing == 3

NoTrack == [splinePath |-> createSplinePathFromSegments(<<>>, FALSE),
            spaces |-> <<>>, corners |-> <<>>, metadata |-> createDefaultTrackMetadata]

NoResult == [segmentIndex |-> -1, t |-> Zero]

\* The distances asked of findTForDistance: the start, half way, the whole
\* chain length, and past the end.
QueryDistances(segs) ==
  LET total == calculateChainArcLength(segs, Samples)
  IN  {Zero, Rat(total, 2), Rat(total, 1), Rat(total + 1, 1)}

\* The tangent where none was computed: calculateChainTangent's {x: 0, y: 0}.
NoTangent == [x |-> 0, y |-> 0, nan |-> FALSE]

\* Track widths handed to the discretizer: the default and a width of nothing.
TrackWidths == {0, DefaultTrackWidth}

\* generateSpotsForSpace not called: the defaults, no tangent, no Spots.
SpotsIdle ==
  /\ givenTangent = NoTangent
  /\ givenWidth = DefaultTrackWidth
  /\ givenSpotCount = DefaultSpotCount
  /\ madeSpots = <<>>

\* enforceContinuity not called: no objects, default settings.
NoSettings == [enforceC1 |-> FALSE, enforceC2 |-> FALSE, tolerance |-> 0]

ContinuityIdle ==
  /\ heap = <<>>
  /\ segmentObjects = <<>>
  /\ givenChain = <<>>
  /\ returnedChain = <<>>
  /\ settings = NoSettings

\* useState(100) of raceSegments.
DefaultRaceSegments == 100

\* selectedPointIndex = null
NoSelection == -1

\* selectedCorner: null
NoCorner == 0

\* editorState as mounted: spline mode, select tool, no corner selected.
CornerEditIdle ==
  /\ editingMode = "spline"
  /\ cornerToolMode = "select"
  /\ selectedCorner = NoCorner
  /\ nextId = 1

\* Nothing rendered.
RenderIdle ==
  /\ givenClosed = FALSE
  /\ givenCorners = <<>>
  /\ givenSpacesCount = 0
  /\ givenSpaceLength = 0
  /\ innerSideSegments = <<>>
  /\ innerSidePaths = <<>>

\* Nothing exported or imported.
SerialIdle ==
  /\ exportedData = <<>>
  /\ importedTrack = <<>>

\* The SplineEditor as mounted, nothing stored.
EditorIdle ==
  /\ isDrawing = FALSE
  /\ currentPath = <<>>
  /\ storedTrackData = <<>>
  /\ currentTrack = <<>>
  /\ raceSegments = DefaultRaceSegments
  /\ selectedPointIndex = NoSelection
  /\ splineToolMode = "select"
  /\ edits = 0

\* ------------------------------------------- the pipeline, stage by stage
Init ==
  /\ pc = "input"
  /\ points \in BoundedSeqs(ControlPoints, MaxPoints)
  /\ target \in 0..MaxSpaces
  /\ threshold = DefaultCurvatureThreshold
  /\ spacing = DefaultMinCornerSpacing
  /\ segments = <<>>
  /\ backPoints = <<>>
  /\ spaces = <<>>
  /\ corners = <<>>
  /\ track = NoTrack
  /\ errors = <<>>
  /\ query = Zero
  /\ found = NoResult
  /\ givenTangent = NoTangent
  /\ givenWidth \in TrackWidths
  /\ givenSpotCount = DefaultSpotCount
  /\ madeSpots = <<>>
  /\ ContinuityIdle
  /\ EditorIdle
  /\ CornerEditIdle
  /\ RenderIdle
  /\ SerialIdle

ToSegments ==
  /\ pc = "input"
  /\ segments' = pointsToBezierSegments(points, "C1")
  /\ pc' = "chain"
  /\ UNCHANGED <<points, target, threshold, spacing, backPoints, spaces, corners,
                 track, errors, query, found>>
  /\ UNCHANGED restVars

ToPoints ==
  /\ pc = "chain"
  /\ backPoints' = bezierSegmentsToPoints(segments)
  /\ pc' = "points"
  /\ UNCHANGED <<points, target, threshold, spacing, segments, spaces, corners,
                 track, errors, query, found>>
  /\ UNCHANGED restVars

FindT ==
  /\ pc = "chain"
  /\ \E q \in QueryDistances(segments) :
       /\ query' = q
       /\ found' = findTForDistance(segments, q.num, q.den, Samples)
  /\ pc' = "found"
  /\ UNCHANGED <<points, target, threshold, spacing, segments, backPoints, spaces,
                 corners, track, errors>>
  /\ UNCHANGED restVars

Discretize ==
  /\ pc = "chain"
  /\ spaces' = discretizePathToSpaces(segments, target, givenWidth, givenSpotCount)
  /\ pc' = "spaces"
  /\ UNCHANGED <<points, target, threshold, spacing, segments, backPoints, corners,
                 track, errors, query, found>>
  /\ UNCHANGED restVars

SuggestCorners ==
  /\ pc = "spaces"
  /\ corners' = autoSuggestCorners(spaces, threshold, spacing)
  /\ pc' = "corners"
  /\ UNCHANGED <<points, target, threshold, spacing, segments, backPoints, spaces,
                 track, errors, query, found>>
  /\ UNCHANGED restVars

Assemble ==
  /\ pc = "corners"
  /\ track' = [splinePath |-> createSplinePathFromSegments(segments, TRUE),
               spaces     |-> spaces,
               corners    |-> corners,
               metadata   |-> createDefaultTrackMetadata]
  /\ pc' = "track"
  /\ UNCHANGED <<points, target, threshold, spacing, segments, backPoints, spaces,
                 corners, errors, query, found>>
  /\ UNCHANGED restVars

Validate ==
  /\ pc = "track"
  /\ errors' = validateTrackData(track)
  /\ pc' = "validated"
  /\ UNCHANGED <<points, target, threshold, spacing, segments, backPoints, spaces,
                 corners, track, query, found>>
  /\ UNCHANGED restVars

Next ==
  \/ ToSegments
  \/ ToPoints
  \/ FindT
  \/ Discretize
  \/ SuggestCorners
  \/ Assemble
  \/ Validate

Spec == Init /\ [][Next]_vars

\* ------------------------------------------------- measurements for claims
Range(seq) == {seq[i] : i \in 1..Len(seq)}

\* Arc length from point 0 to the chain position (segmentIndex, t), measured
\* along the chords the arc-length engine walks.  NaN when t is no number.
ArcLengthAt(segs, at, samples) ==
  IF ~IsFinite(at.t) \/ at.segmentIndex < 0 \/ at.segmentIndex >= Len(segs) THEN NaN
  ELSE LET seg    == segs[at.segmentIndex + 1]
           a      == at.t.num
           b      == at.t.den
           j      == Max(0, Min((a * samples) \div b, samples - 1))
           before == calculateChainArcLength(SubSeq(segs, 1, at.segmentIndex), samples)
           RECURSIVE Chords(_)
           Chords(i) == IF i = 0 THEN 0 ELSE Chords(i - 1) + ChordLength(seg, i, samples)
       IN  Rat((before + Chords(j)) * b + (a * samples - j * b) * ChordLength(seg, j + 1, samples),
               b)

\* C1: a closed chain of N >= 3 points discretized with target k >= 1 gives
\* exactly k Spaces, indexed 0..k-1 in order, Space i lying at arc length
\* i * (total / k) from point 0 (so that all gaps, the wrap-around gap
\* included, are equal).
C1_EqualArcLengthSpaces ==
  (pc = "spaces" /\ Len(points) >= 3 /\ target >= 1) =>
     /\ Len(spaces) = target
     /\ \A n \in 1..Len(spaces) :
          /\ spaces[n].index = n - 1
          /\ RatEq(ArcLengthAt(segments, spaces[n].at, Samples),
                   Rat((n - 1) * calculateChainArcLength(segments, Samples), target))

\* C2: the validator accepts a freshly discretized, freshly corner-suggested,
\* default-metadata track over a closed chain of >= 3 segments.
C2_FreshTrackValidates ==
  (pc = "validated" /\ Len(track.splinePath.segments) >= 3) => errors = <<>>

\* C4: bezierSegmentsToPoints(pointsToBezierSegments(points)) gives back the
\* points: as many, each with the same x, y, handleIn and handleOut.
C4_PointsRoundTrip ==
  (pc = "points" /\ Len(points) >= 2) =>
     /\ Len(backPoints) = Len(points)
     /\ \A i \in 1..Min(Len(points), Len(backPoints)) : backPoints[i] = points[i]

\* C5: findTForDistance(chain, 0) is segment 0 at t = 0, a defined number.
C5_DistanceZeroIsStart ==
  (pc = "found" /\ Len(segments) >= 1 /\ RatEq(query, Zero)) =>
     /\ found.segmentIndex = 0
     /\ RatEq(found.t, Zero)

\* C6: past the chain length findTForDistance gives the final segment at
\* t = 1; at exactly the chain length it gives the final segment with t in
\* the last chord, up to 1.
C6_DistanceAtOrPastEnd ==
  LET total == calculateChainArcLength(segments, Samples)
  IN  (pc = "found" /\ Len(segments) >= 1 /\ RatLeq(Rat(total, 1), query)) =>
        /\ found.segmentIndex = Len(segments) - 1
        /\ RatLess(Rat(total, 1), query) => RatEq(found.t, One)
        /\ RatLeq(Rat(Samples - 1, Samples), found.t)
        /\ RatLeq(found.t, One)

\* C7 as stated: exactly 2 control points give zero segments and an empty
\* Space array.
C7_TwoPointsGiveNothing ==
  /\ (pc # "input" /\ Len(points) = 2) => Len(segments) = 0
  /\ (pc = "spaces" /\ Len(points) = 2) => Len(spaces) = 0

\* C7 as amended: fewer than 2 control points give zero segments and an empty
\* Space array; exactly 2 control points give the 2 segments there and back
\* and targetSpacesPerLap Spaces.
C7_FewerThanTwoPointsGiveNothing ==
  /\ (pc # "input" /\ Len(points) < 2) => Len(segments) = 0
  /\ (pc = "spaces" /\ Len(points) < 2) => Len(spaces) = 0
  /\ (pc # "input" /\ Len(points) = 2) =>
        /\ Len(segments) = 2
        /\ segments[1].startPoint = points[1] /\ segments[1].endPoint = points[2]
        /\ segments[2].startPoint = points[2] /\ segments[2].endPoint = points[1]
  /\ (pc = "spaces" /\ Len(points) = 2) => Len(spaces) = target

C7_Witness ==
  /\ pc = "spaces"
  /\ Len(points) = 2
  /\ target >= 1
  /\ Len(segments) = 2
  /\ Len(spaces) = target

\* --------------------------------------------- the corner analyzer alone
\* Curvatures of the Spaces handed to autoSuggestCorners: a straight, a
\* medium and a slow bend.
CurvatureValues == {Zero, Rat(2, 10), Rat(4, 10)}

ThresholdValues == {Rat(1, 10), Rat(1, 4)}

\* A Space as the discretizer makes it, with the given index and curvature.
InputSpace(index, curvature, spots) ==
  [index    |-> index,
   at       |-> [segmentIndex |-> 0, t |-> Zero],
   spots    |-> spots,
   metadata |-> [isCornerLine  |-> FALSE,
                 isStartFinish |-> FALSE,
                 isStraight    |-> RatLess(curvature, Rat(1, 100)),
                 curvature     |-> curvature,
                 trackWidth    |-> DefaultTrackWidth,
                 surface       |-> "asphalt"]]

GoodSpots == generateSpotsForSpace([x |-> 1, y |-> 0, nan |-> FALSE],
                                   DefaultTrackWidth, DefaultSpotCount)

RingInputs ==
  { [i \in 1..Len(cs) |-> InputSpace(i - 1, cs[i], GoodSpots)] :
      cs \in BoundedSeqs(CurvatureValues, MaxRing) }

InitCorners ==
  /\ pc = "spaces"
  /\ spaces \in RingInputs
  /\ threshold \in ThresholdValues
  /\ spacing \in 0..MaxSpacing
  /\ points = <<>>
  /\ target = Len(spaces)
  /\ segments = <<>>
  /\ backPoints = <<>>
  /\ corners = <<>>
  /\ track = NoTrack
  /\ errors = <<>>
  /\ query = Zero
  /\ found = NoResult
  /\ SpotsIdle
  /\ ContinuityIdle
  /\ EditorIdle
  /\ CornerEditIdle
  /\ RenderIdle
  /\ SerialIdle

NextCorners == SuggestCorners

SpecCorners == InitCorners /\ [][NextCorners]_vars

\* min(|a - b|, spaceCount - |a - b|)
CircularDistance(a, b, spaceCount) == Min(Abs(a - b), spaceCount - Abs(a - b))

\* C3: no two suggested Corners are closer than minCornerSpacing on the ring
\* of Spaces.
C3_CornersKeepCircularSpacing ==
  pc = "corners" =>
    \A i, j \in 1..Len(corners) :
       i # j => CircularDistance(corners[i].spaceIndex, corners[j].spaceIndex,
                                 Len(spaces)) >= spacing

\* ------------------------------------------------ the validator alone
\* A straight segment from p to q, as a point list without handles gives it.
InputSegment(p, q) ==
  [startPoint |-> p, endPoint |-> q, cp1 |-> AsPoint(p), cp2 |-> AsPoint(q),
   continuity |-> "C0"]

LinePoint(x) == BezierPoint(x, 0, NoHandle, NoHandle)

\* Chains of the tracks handed to the validator: none, there and back, a
\* closed triangle, and three segments in a row that do not return to the start
\* (a track file may hold any segment list).
ChainInputs ==
  { <<>>,
    pointsToBezierSegments(<<LinePoint(0), LinePoint(4)>>, "C1"),
    pointsToBezierSegments(<<LinePoint(0), LinePoint(4), BezierPoint(0, 4, NoHandle, NoHandle)>>, "C1"),
    <<InputSegment(LinePoint(0), LinePoint(1)), InputSegment(LinePoint(1), LinePoint(2)),
      InputSegment(LinePoint(2), LinePoint(3))>> }

\* Spot lists of a Space: as generated, none, and with two race-line spots.
SpotInputs ==
  { GoodSpots, <<>>, [GoodSpots EXCEPT ![1].type = "race-line"] }

SpacesInputs ==
  { [i \in 1..Len(ss) |-> InputSpace(i - 1, Zero, ss[i])] :
      ss \in BoundedSeqs(SpotInputs, MaxTrackSpaces) }

\* A Corner with the two fields the validator reads set as given.
InputCorner(spaceIndex, speedLimit) ==
  [MakeCorner(InputSpace(spaceIndex, Rat(2, 10), GoodSpots))
     EXCEPT !.speedLimit = speedLimit, !.isAutoSuggested = FALSE]

CornerInputs ==
  { InputCorner(-1, 3), InputCorner(0, 3), InputCorner(0, 7),
    InputCorner(MaxTrackSpaces, 0) }

TrackInputs ==
  { [splinePath |-> createSplinePathFromSegments(sg, cl),
     spaces     |-> sp,
     corners    |-> co,
     metadata   |-> [startFinishSpaceIndex |-> sf]] :
      sg \in ChainInputs, cl \in BOOLEAN, sp \in SpacesInputs,
      co \in BoundedSeqs(CornerInputs, MaxCorners),
      sf \in {-1, 0, MaxTrackSpaces} }

InitValidate ==
  /\ pc = "track"
  /\ track \in TrackInputs
  /\ points = <<>>
  /\ target = 0
  /\ threshold = DefaultCurvatureThreshold
  /\ spacing = DefaultMinCornerSpacing
  /\ segments = track.splinePath.segments
  /\ backPoints = <<>>
  /\ spaces = track.spaces
  /\ corners = track.corners
  /\ errors = <<>>
  /\ query = Zero
  /\ found = NoResult
  /\ SpotsIdle
  /\ ContinuityIdle
  /\ EditorIdle
  /\ CornerEditIdle
  /\ RenderIdle
  /\ SerialIdle

NextValidate == Validate

SpecValidate == InitValidate /\ [][NextValidate]_vars

\* C8: the validator never stops at a failure.  Every check reports on its own
\* condition whatever the other checks found, and an open track gets the
\* closed-loop error in front of exactly the errors it would get if closed.
C8_ValidatorIsExhaustive ==
  pc = "validated" =>
    LET reported == Range(errors)
        count    == Len(track.spaces)
    IN  /\ (ErrNotClosed \in reported) <=> ~track.splinePath.closed
        /\ (ErrNoSpaces \in reported) <=> count = 0
        /\ (ErrStartFinish \in reported) <=> track.metadata.startFinishSpaceIndex >= count
        /\ \A c \in Range(track.corners) :
             /\ (ErrCornerBounds(c) \in reported) <=> c.spaceIndex >= count
             /\ (ErrCornerSpeed(c) \in reported) <=> (c.speedLimit < 1 \/ c.speedLimit > 6)
        /\ \A sp \in Range(track.spaces) :
             /\ (ErrNoSpots(sp) \in reported) <=> Len(sp.spots) = 0
             /\ (ErrRaceLine(sp) \in reported)
                  <=> Cardinality({k \in 1..Len(sp.spots) : sp.spots[k].type = "race-line"}) # 1
        /\ (ErrSegments \in reported) <=> Len(track.splinePath.segments) < 3
        /\ (ErrSelfIntersect \in reported)
             <=> checkForSelfIntersections(track.splinePath.segments)
        /\ ~track.splinePath.closed =>
             errors = <<ErrNotClosed>>
                      \o validateTrackData([track EXCEPT !.splinePath.closed = TRUE])

C8_Witness ==
  /\ pc = "validated"
  /\ ~track.splinePath.closed
  /\ {ErrNotClosed, ErrStartFinish, ErrSegments} \subseteq Range(errors)
  /\ \E c \in Range(track.corners) : ErrCornerSpeed(c) \in Range(errors)
  /\ \E sp \in Range(track.spaces) : ErrRaceLine(sp) \in Range(errors)

\* C9: an error is reported for every Corner whose spaceIndex is no Space
\* index (negative ones included), for every Corner whose speedLimit is
\* outside [1,6], and for a start/finish index that is no Space index
\* (negative ones included); and none of them otherwise.
C9_RangeErrorsReported ==
  pc = "validated" =>
    LET reported == Range(errors)
        count    == Len(track.spaces)
        sf       == track.metadata.startFinishSpaceIndex
    IN  /\ \A c \in Range(track.corners) :
             /\ (ErrCornerBounds(c) \in reported) <=> (c.spaceIndex < 0 \/ c.spaceIndex >= count)
             /\ (ErrCornerSpeed(c) \in reported) <=> (c.speedLimit < 1 \/ c.speedLimit > 6)
        /\ (ErrStartFinish \in reported) <=> (sf < 0 \/ sf >= count)

\* C10: a track with two Corners on the same spaceIndex gets a non-empty
\* error list (stated for two Corners on one Space of the track).
C10_DuplicateCornerReported ==
  (pc = "validated"
     /\ \E i, j \in 1..Len(track.corners) :
          /\ i # j
          /\ track.corners[i].spaceIndex = track.corners[j].spaceIndex
          /\ track.corners[i].spaceIndex \in 0..(Len(track.spaces) - 1))
  => errors # <<>>

\* C11: every Space the discretizer returns holds exactly one race-line Spot,
\* also where the tangent at the sample has zero length.
C11_EverySpaceHasOneRaceLine ==
  (pc = "spaces" /\ givenSpotCount >= 3) =>
    \A n \in 1..Len(spaces) :
       Cardinality({k \in 1..Len(spaces[n].spots) :
                      spaces[n].spots[k].type = "race-line"}) = 1

\* C13: malformed discretization input (fewer than 2 control points, a
\* trackWidth <= 0, a targetSpacesPerLap of 0) is rejected when the track is
\* constructed: the pipeline never returns a Space array for it.
C13_MalformedInputRejected ==
  (Len(points) < 2 \/ givenWidth <= 0 \/ target = 0) =>
     pc \notin {"spaces", "corners", "track", "validated"}

\* C14: N >= 2 control points give a closed chain of N segments, segment i
\* from point i to point (i+1) mod N, each ending where the next one starts
\* (the last one where the first one starts), cp1 the start point's handleOut
\* or the start point itself, cp2 the end point's handleIn or the end point
\* itself; fewer than 2 points give no segments.
C14_ClosedChainOfSegments ==
  pc # "input" =>
    LET N == Len(points)
    IN  /\ N < 2 => segments = <<>>
        /\ N >= 2 =>
             /\ Len(segments) = N
             /\ \A i \in 1..Len(segments) :
                  LET seg  == segments[i]
                      from == points[i]
                      to   == points[(i % N) + 1]
                  IN  /\ seg.startPoint = from
                      /\ seg.endPoint = to
                      /\ seg.endPoint = segments[(i % Len(segments)) + 1].startPoint
                      /\ seg.cp1 = IF from.handleOut = NoHandle THEN Pt(from.x, from.y)
                                   ELSE from.handleOut[1]
                      /\ seg.cp2 = IF to.handleIn = NoHandle THEN Pt(to.x, to.y)
                                   ELSE to.handleIn[1]

C14_Witness ==
  /\ pc = "chain"
  /\ Len(points) = 3
  /\ Len(segments) = 3
  /\ points[1].handleOut = NoHandle
  /\ points[3].handleOut # NoHandle
  /\ segments[3].endPoint = points[1]
  /\ segments[3].cp1 = points[3].handleOut[1]
  /\ segments[3].cp2 = Pt(points[1].x, points[1].y)

\* ------------------------------------------------ the spot generator alone
\* Tangents handed to generateSpotsForSpace: the eight directions of the
\* grid, the zero tangent, and the tangent at a t that is no number.
TangentInputs ==
  { [x |-> dx, y |-> dy, nan |-> FALSE] : dx \in -1..1, dy \in -1..1 }
    \cup { [x |-> 0, y |-> 0, nan |-> TRUE] }

SpotWidths == {0, 60, DefaultTrackWidth}

InitSpots ==
  /\ pc = "tangent"
  /\ givenTangent \in TangentInputs
  /\ givenWidth \in SpotWidths
  /\ givenSpotCount \in 0..MaxSpotCount
  /\ madeSpots = <<>>
  /\ points = <<>>
  /\ target = 0
  /\ threshold = DefaultCurvatureThreshold
  /\ spacing = DefaultMinCornerSpacing
  /\ segments = <<>>
  /\ backPoints = <<>>
  /\ spaces = <<>>
  /\ corners = <<>>
  /\ track = NoTrack
  /\ errors = <<>>
  /\ query = Zero
  /\ found = NoResult
  /\ ContinuityIdle
  /\ EditorIdle
  /\ CornerEditIdle
  /\ RenderIdle
  /\ SerialIdle

GenerateSpots ==
  /\ pc = "tangent"
  /\ madeSpots' = generateSpotsForSpace(givenTangent, givenWidth, givenSpotCount)
  /\ pc' = "spots"
  /\ UNCHANGED <<points, target, threshold, spacing, segments, backPoints, spaces,
                 corners, track, errors, query, found>>
  /\ UNCHANGED <<givenTangent, givenWidth, givenSpotCount, continuityVars, editorVars,
                 laterVars>>

NextSpots == GenerateSpots

SpecSpots == InitSpots /\ [][NextSpots]_vars

\* C12: for a non-zero tangent and n >= 3, generateSpotsForSpace returns n
\* Spots with spotIndex 0..n-1 at offsets (i - (n-1)/2) * trackWidth / (n-1),
\* from -trackWidth/2 to +trackWidth/2; Spots 0 and n-1 are outer, blocking,
\* slipstream 2, the highest; the Spot at floor(n/2) is the only race-line
\* Spot, non-blocking, at offset 0 when n is odd; all others are inner,
\* non-blocking, slipstream 1.
C12_SpotLayout ==
  (pc = "spots" /\ givenSpotCount >= 3 /\ ~givenTangent.nan
     /\ (givenTangent.x # 0 \/ givenTangent.y # 0)) =>
    LET n == givenSpotCount
        w == givenWidth
    IN  /\ Len(madeSpots) = n
        /\ \A j \in 1..Len(madeSpots) :
             LET spot == madeSpots[j]
                 i    == j - 1
             IN  /\ spot.spotIndex = i
                 /\ RatEq(spot.offset, Rat((2 * i - (n - 1)) * w, 2 * (n - 1)))
                 /\ i = 0 => RatEq(spot.offset, Rat(-w, 2))
                 /\ i = n - 1 => RatEq(spot.offset, Rat(w, 2))
                 /\ i \in {0, n - 1} =>
                      /\ spot.type = "outer" /\ spot.isBlocking /\ spot.slipstreamValue = 2
                      /\ \A k \in 1..Len(madeSpots) : madeSpots[k].slipstreamValue <= 2
                 /\ i = n \div 2 =>
                      /\ spot.type = "race-line" /\ ~spot.isBlocking
                      /\ n % 2 = 1 => RatEq(spot.offset, Zero)
                 /\ i \notin {0, n - 1, n \div 2} =>
                      spot.type = "inner" /\ ~spot.isBlocking /\ spot.slipstreamValue = 1
        /\ Cardinality({k \in 1..Len(madeSpots) : madeSpots[k].type = "race-line"}) = 1

C12_Witness ==
  /\ pc = "spots"
  /\ givenSpotCount = 4
  /\ givenTangent = [x |-> 1, y |-> -1, nan |-> FALSE]
  /\ givenWidth = 60
  /\ Len(madeSpots) = 4
  /\ madeSpots[3].type = "race-line"
  /\ madeSpots[2].type = "inner"

\* ------------------------------------------------ continuity enforcement
\* enforceContinuity writes to the objects it is handed, so the chain is
\* modelled here as objects: `heap` maps a reference of a Point object to its
\* coordinates, a BezierSegment object holds four references.  Coordinates are
\* in units of 1/Unit; Math.sqrt is the integer square root in that unit.
Unit == 1024

PointRef(i) == <<"point", i>>

HandleInRef(i) == <<"handleIn", i>>

HandleOutRef(i) == <<"handleOut", i>>

\* The object `next.cp2 = {...}` creates for the segment object `id`.
NewCp2Ref(id) == <<"cp2", id>>

\* The Point objects of a list of control points: each point, and each handle
\* it has.
PointObjects(pts) ==
  LET refs == {PointRef(i) : i \in 1..Len(pts)}
              \cup {HandleInRef(i) : i \in {k \in 1..Len(pts) : pts[k].handleIn # NoHandle}}
              \cup {HandleOutRef(i) : i \in {k \in 1..Len(pts) : pts[k].handleOut # NoHandle}}
  IN  [r \in refs |->
         LET p == pts[r[2]]
             v == IF r[1] = "point" THEN AsPoint(p)
                  ELSE IF r[1] = "handleIn" THEN p.handleIn[1]
                  ELSE p.handleOut[1]
         IN  Pt(v.x * Unit, v.y * Unit)]

\* pointsToBezierSegments on objects: startPoint and endPoint are the point
\* objects; cp1 is the start point's handleOut object, or the start point
\* object itself; cp2 is the end point's handleIn object, or the end point
\* object itself.
SegmentObjects(pts) ==
  IF Len(pts) < 2 THEN <<>>
  ELSE [i \in 1..Len(pts) |->
          LET n == (i % Len(pts)) + 1
          IN  [startPoint |-> PointRef(i),
               endPoint   |-> PointRef(n),
               cp1        |-> IF pts[i].handleOut = NoHandle THEN PointRef(i)
                              ELSE HandleOutRef(i),
               cp2        |-> IF pts[n].handleIn = NoHandle THEN PointRef(n)
                              ELSE HandleInRef(n)]]

\* The coordinates a segment object has in a heap.
Deref(segment, hp) ==
  [startPoint |-> hp[segment.startPoint],
   endPoint   |-> hp[segment.endPoint],
   cp1        |-> hp[segment.cp1],
   cp2        |-> hp[segment.cp2]]

\* The sample count of calculateSegmentCurvature.
CurvatureSamples == 10

\* calculateCurvatureAtT at t = i / CurvatureSamples, in thousandths: the
\* derivatives are taken to units of 1/CurvatureFix, then |x'y'' - y'x''| /
\* (x'^2 + y'^2)^(3/2), 0 where the denominator is 0.
calculateCurvatureAtT(p0, cp1, cp2, p1, i) ==
  LET m   == CurvatureSamples - i
      dxN == -3*m*m * p0.x + 3*m*m * cp1.x - 6*m*i * cp1.x + 6*m*i * cp2.x
             - 3*i*i * cp2.x + 3*i*i * p1.x
      dyN == -3*m*m * p0.y + 3*m*m * cp1.y - 6*m*i * cp1.y + 6*m*i * cp2.y
             - 3*i*i * cp2.y + 3*i*i * p1.y
      ddxN == 6*m * p0.x - 12*m * cp1.x + 6*m * cp2.x + 6*i * cp1.x - 12*i * cp2.x
              + 6*i * p1.x
      ddyN == 6*m * p0.y - 12*m * cp1.y + 6*m * cp2.y + 6*i * cp1.y - 12*i * cp2.y
              + 6*i * p1.y
      down == Unit \div CurvatureFix
      dx   == dxN \div (CurvatureSamples * CurvatureSamples * down)
      dy   == dyN \div (CurvatureSamples * CurvatureSamples * down)
      ddx  == ddxN \div (CurvatureSamples * down)
      ddy  == ddyN \div (CurvatureSamples * down)
      numerator == Abs(dx * ddy - dy * ddx)
      n2   == dx * dx + dy * dy
      n1   == Sqrt(n2)
  IN  IF n1 = 0 THEN 0
      ELSE (((numerator * 10) \div n1) * ((CurvatureScale \div 10) * CurvatureFix)) \div n2

\* calculateSegmentCurvature: the mean of the curvature at the samples
\* 0 .. CurvatureSamples, in thousandths.
calculateSegmentCurvature(segment) ==
  LET RECURSIVE Sum(_, _)
      Sum(i, totalCurvature) ==
        IF i > CurvatureSamples THEN totalCurvature
        ELSE Sum(i + 1, totalCurvature
                        + calculateCurvatureAtT(segment.startPoint, segment.cp1,
                                                segment.cp2, segment.endPoint, i))
  IN  Sum(0, 0) \div (CurvatureSamples + 1)

\* adjustSegmentForCurvature(segment, targetCurvature): moves the cp1 and the
\* cp2 object of the segment, in place, away from or towards the middle of the
\* chord by (targetCurvature - currentCurvature) * 0.1 of their distance to it.
\* The four writes happen in the program's order, each reading the heap the
\* one before left.
adjustSegmentForCurvature(segment, hp, targetCurvature) ==
  LET currentCurvature == calculateSegmentCurvature(Deref(segment, hp))
      adjustment == targetCurvature - currentCurvature   \* in 1/(10 * CurvatureScale)
      per        == 2 * 10 * CurvatureScale
      centerX2   == hp[segment.startPoint].x + hp[segment.endPoint].x
      centerY2   == hp[segment.startPoint].y + hp[segment.endPoint].y
      Moved(v, center2) == v + (adjustment * (2 * v - center2)) \div per
      h1 == [hp EXCEPT ![segment.cp1].x = Moved(@, centerX2)]
      h2 == [h1 EXCEPT ![segment.cp1].y = Moved(@, centerY2)]
      h3 == [h2 EXCEPT ![segment.cp2].x = Moved(@, centerX2)]
      h4 == [h3 EXCEPT ![segment.cp2].y = Moved(@, centerY2)]
  IN  h4

\* enforceContinuity(segments, settings).  `chain` is the array: the
\* identities of its segment objects, in order; `objects` maps an identity to
\* the segment object.  The copy `[...segments]` holds the same objects, so
\* what the loop writes, it writes to the objects of the array handed in.
enforceContinuity(chain, objects, hp, st) ==
  IF Len(chain) < 2 THEN [returned |-> chain, objects |-> objects, heap |-> hp]
  ELSE
    LET RECURSIVE Loop(_, _, _)
        Loop(i, objs, h) ==
          IF i > Len(chain) THEN [returned |-> chain, objects |-> objs, heap |-> h]
          ELSE
            LET current == chain[i]
                next    == chain[(i % Len(chain)) + 1]
                \* C1: next.cp2 = next.startPoint - tangent1 * scale
                tangent1 == Pt(h[objs[current].cp1].x - h[objs[current].endPoint].x,
                               h[objs[current].cp1].y - h[objs[current].endPoint].y)
                tangent2 == Pt(h[objs[next].startPoint].x - h[objs[next].cp2].x,
                               h[objs[next].startPoint].y - h[objs[next].cp2].y)
                tangentLength == Sqrt(tangent1.x * tangent1.x + tangent1.y * tangent1.y)
                length2  == Sqrt(tangent2.x * tangent2.x + tangent2.y * tangent2.y)
                adjustC1 == st.enforceC1 /\ (tangent1.x # 0 \/ tangent1.y # 0)
                cp2      == Pt(h[objs[next].startPoint].x
                                 - (tangent1.x * length2) \div tangentLength,
                               h[objs[next].startPoint].y
                                 - (tangent1.y * length2) \div tangentLength)
                objs1 == IF adjustC1 THEN [objs EXCEPT ![next].cp2 = NewCp2Ref(next)]
                         ELSE objs
                h1    == IF adjustC1
                         THEN [r \in DOMAIN h \cup {NewCp2Ref(next)} |->
                                 IF r = NewCp2Ref(next) THEN cp2 ELSE h[r]]
                         ELSE h
                \* C2: adjustSegmentForCurvature(next, avgCurvature)
                curvature1 == calculateSegmentCurvature(Deref(objs1[current], h1))
                curvature2 == calculateSegmentCurvature(Deref(objs1[next], h1))
                adjustC2 == st.enforceC2 /\ Abs(curvature1 - curvature2) > st.tolerance
                h2    == IF adjustC2
                         THEN adjustSegmentForCurvature(objs1[next], h1,
                                                        (curvature1 + curvature2) \div 2)
                         ELSE h1
            IN  Loop(i + 1, objs1, h2)
    IN  Loop(1, objects, hp)

\* The settings handed to enforceContinuity: each combination of the two
\* switches, with the tolerance 0.01 of the continuity checks, in thousandths.
SettingsInputs ==
  { [enforceC1 |-> c1, enforceC2 |-> c2, tolerance |-> 10] :
      c1 \in BOOLEAN, c2 \in BOOLEAN }

\* The coordinates the segments of an array have, in order.
ChainValues(chain, objects, hp) ==
  [i \in 1..Len(chain) |-> Deref(objects[chain[i]], hp)]

InitContinuity ==
  /\ pc = "objects"
  /\ points \in BoundedSeqs(ControlPoints, MaxPoints)
  /\ segments = pointsToBezierSegments(points, "C1")
  /\ heap = PointObjects(points)
  /\ segmentObjects = SegmentObjects(points)
  /\ givenChain = [i \in 1..Len(segmentObjects) |-> i]
  /\ returnedChain = <<>>
  /\ settings \in SettingsInputs
  /\ target = 0
  /\ threshold = DefaultCurvatureThreshold
  /\ spacing = DefaultMinCornerSpacing
  /\ backPoints = <<>>
  /\ spaces = <<>>
  /\ corners = <<>>
  /\ track = NoTrack
  /\ errors = <<>>
  /\ query = Zero
  /\ found = NoResult
  /\ SpotsIdle
  /\ EditorIdle
  /\ CornerEditIdle
  /\ RenderIdle
  /\ SerialIdle

EnforceContinuity ==
  /\ pc = "objects"
  /\ LET result == enforceContinuity(givenChain, segmentObjects, heap, settings)
     IN  /\ returnedChain' = result.returned
         /\ segmentObjects' = result.objects
         /\ heap' = result.heap
  /\ pc' = "continuous"
  /\ UNCHANGED <<points, target, threshold, spacing, segments, backPoints, spaces,
                 corners, track, errors, query, found>>
  /\ UNCHANGED <<spotVars, givenChain, settings, editorVars, laterVars>>

NextContinuity == EnforceContinuity

SpecContinuity == InitContinuity /\ [][NextContinuity]_vars

\* Two vectors are collinear and point the same way, up to the rounding of
\* the coordinates: the sine of the angle between them is at most 1/50 and
\* their inner product is not negative.  A zero vector goes with any vector.
SameDirection(a, b) ==
  LET crossProduct == Abs(a.x * b.y - a.y * b.x)
      lengthA == Sqrt(a.x * a.x + a.y * a.y)
      lengthB == Sqrt(b.x * b.x + b.y * b.y)
  IN  /\ (crossProduct \div Unit) * 50 <= (lengthA * lengthB) \div Unit
      /\ a.x * b.x + a.y * b.y >= 0

\* C15: after enforceContinuity with enforceC1 and without enforceC2 on a
\* closed chain of >= 2 segments, at every joint, the one from the last
\* segment to the first included, the previous segment's outgoing tangent
\* (endPoint - cp2) and the next segment's incoming offset (cp1 - startPoint)
\* are collinear and point the same way.
C15_TangentContinuousAtJoints ==
  (pc = "continuous" /\ settings.enforceC1 /\ ~settings.enforceC2
     /\ Len(returnedChain) >= 2) =>
    LET chain == ChainValues(returnedChain, segmentObjects, heap)
    IN  \A i \in 1..Len(chain) :
          LET previous == chain[i]
              next     == chain[(i % Len(chain)) + 1]
          IN  SameDirection(Pt(previous.endPoint.x - previous.cp2.x,
                               previous.endPoint.y - previous.cp2.y),
                            Pt(next.cp1.x - next.startPoint.x,
                               next.cp1.y - next.startPoint.y))

\* C16: enforceContinuity leaves the chain it was handed as it was: every
\* segment of the array handed in has the startPoint, endPoint, cp1 and cp2
\* coordinates it had before the call.
C16_InputChainUntouched ==
  pc = "continuous" =>
    ChainValues(givenChain, segmentObjects, heap)
      = ChainValues(givenChain, SegmentObjects(points), PointObjects(points))

\* ------------------------------------------------------ the spline editor
\* Editor coordinates are in grid units of PixelsPerUnit pixels.
PixelsPerUnit == 25

SPLINE_SIMPLIFICATION_TOLERANCE == 50

\* The square of the distance from point p to the line segment from a to b:
\* to a where the segment has no length or the foot of the perpendicular lies
\* before a, to b where it lies after b, to the foot otherwise.
SquaredDistanceToSegment(p, a, b) ==
  LET A == p.x - a.x
      B == p.y - a.y
      C == b.x - a.x
      D == b.y - a.y
      dot   == A * C + B * D
      lenSq == C * C + D * D
      crossProduct == A * D - B * C
  IN  IF lenSq = 0 \/ dot < 0 THEN Rat(A * A + B * B, 1)
      ELSE IF dot > lenSq
           THEN Rat((p.x - b.x) * (p.x - b.x) + (p.y - b.y) * (p.y - b.y), 1)
      ELSE Rat(crossProduct * crossProduct, lenSq)

\* perpendicularDistance(point, lineStart, lineEnd) of pathUtils, squared.
perpendicularDistance(point, lineStart, lineEnd) ==
  SquaredDistanceToSegment(point, lineStart, lineEnd)

\* distanceToLineSegment(px, py, x1, y1, x2, y2) of the editor, squared.
distanceToLineSegment(px, py, x1, y1, x2, y2) ==
  SquaredDistanceToSegment(Pt(px, py), Pt(x1, y1), Pt(x2, y2))

\* simplifyPath(points, tolerance), Ramer-Douglas-Peucker; tolerance in pixels.
RECURSIVE simplifyPath(_, _)
simplifyPath(pts, tolerance) ==
  IF Len(pts) < 3 THEN pts
  ELSE
    LET firstPoint == pts[1]
        lastPoint  == pts[Len(pts)]
        RECURSIVE Farthest(_, _, _)
        \* i and maxIndex are the program's 0-based indices
        Farthest(i, maxDistance, maxIndex) ==
          IF i >= Len(pts) - 1 THEN [maxDistance |-> maxDistance, maxIndex |-> maxIndex]
          ELSE LET dist == perpendicularDistance(pts[i + 1], firstPoint, lastPoint)
               IN  IF RatLess(maxDistance, dist) THEN Farthest(i + 1, dist, i)
                   ELSE Farthest(i + 1, maxDistance, maxIndex)
        far == Farthest(1, Zero, 0)
    IN  IF RatLess(Rat(tolerance * tolerance, PixelsPerUnit * PixelsPerUnit),
                   far.maxDistance)
        THEN LET left  == simplifyPath(SubSeq(pts, 1, far.maxIndex + 1), tolerance)
                 right == simplifyPath(SubSeq(pts, far.maxIndex + 1, Len(pts)), tolerance)
             IN  SubSeq(left, 1, Len(left) - 1) \o right
        ELSE <<firstPoint, lastPoint>>

\* (next - prev) * 0.25 for one coordinate; the strokes and clicks of the model
\* lie on a grid of 4 units, where the quarter is a whole number.
Quarter(d) == d \div 4

\* pointsToBezier(points): every point gets the handles
\* point -/+ 0.25 * (next - prev), neighbours taken around the loop.
pointsToBezier(pts) ==
  IF Len(pts) < 2 THEN [i \in 1..Len(pts) |-> BezierPoint(pts[i].x, pts[i].y, NoHandle, NoHandle)]
  ELSE [i \in 1..Len(pts) |->
          LET current  == pts[i]
              prev     == IF i > 1 THEN pts[i - 1] ELSE pts[Len(pts)]
              next     == IF i < Len(pts) THEN pts[i + 1] ELSE pts[1]
              tangentX == Quarter(next.x - prev.x)
              tangentY == Quarter(next.y - prev.y)
          IN  BezierPoint(current.x, current.y,
                          Handle(current.x - tangentX, current.y - tangentY),
                          Handle(current.x + tangentX, current.y + tangentY))]

\* Math.min and Math.max: NaN if an argument is NaN.
MathMin(r, s) == IF IsNaN(r) \/ IsNaN(s) THEN NaN ELSE RatMin(r, s)

MathMax(r, s) == IF IsNaN(r) \/ IsNaN(s) THEN NaN ELSE RatMax(r, s)

\* Math.round of a finite number: the nearest integer, halves upwards.
MathRound(r) == (2 * r.num + r.den) \div (2 * r.den)

\* calculateAverageSpeed(spaces, corners), rounded to tenths.
calculateAverageSpeed(spcs, crns) ==
  IF Len(spcs) = 0 THEN Zero
  ELSE LET totalSpaces    == Len(spcs)
           cornerSpaces   == Len(crns)
           straightSpaces == totalSpaces - cornerSpaces
       IN  Rat(MathRound(Rat((straightSpaces * 6 + cornerSpaces * 3) * 10, totalSpaces)), 10)

\* calculateTrackDifficulty(corners, averageCurvature)
calculateTrackDifficulty(crns, averageCurvature) ==
  LET curvatureDifficulty ==
        MathMin(Rat(10, 1), MathMax(One, Rat(averageCurvature.num * 20, averageCurvature.den)))
      RECURSIVE Sum(_, _)
      Sum(i, total) == IF i > Len(crns) THEN total
                       ELSE Sum(i + 1, RatAdd(total, crns[i].difficulty))
      averageCornerDifficulty == Rat(Sum(1, Zero).num, Sum(1, Zero).den * Len(crns))
      mean == RatAdd(averageCornerDifficulty, curvatureDifficulty)
  IN  IF Len(crns) = 0 THEN curvatureDifficulty
      ELSE IF ~IsFinite(mean) THEN NaN
      ELSE Rat(MathRound(Rat(mean.num, 2 * mean.den)), 1)

\* updateTrackMetadata(metadata, spaces, corners, totalLength)
updateTrackMetadata(metadata, spcs, crns, totalLength) ==
  LET RECURSIVE Sum(_, _)
      Sum(i, total) == IF i > Len(spcs) THEN total
                       ELSE Sum(i + 1, RatAdd(total, spcs[i].metadata.curvature))
      averageCurvature == Rat(Sum(1, Zero).num, Sum(1, Zero).den * Len(spcs))
  IN  [metadata EXCEPT
         !.boardMetadata = [cornersPerLap |-> Len(crns),
                            spacesPerLap  |-> Len(spcs),
                            trackLength   |-> totalLength,
                            averageSpeed  |-> calculateAverageSpeed(spcs, crns),
                            difficulty    |-> calculateTrackDifficulty(crns, averageCurvature)]]

\* The track handleMouseUp makes of a stroke.
NewTrackData(path, raceSegs) ==
  LET simplified     == simplifyPath(path, SPLINE_SIMPLIFICATION_TOLERANCE)
      bezierPoints   == pointsToBezier(simplified)
      bezierSegments == pointsToBezierSegments(bezierPoints, "C1")
      splinePath     == createSplinePathFromSegments(bezierSegments, TRUE)
      spcs           == discretizePathToSpaces(bezierSegments, raceSegs,
                                               DefaultTrackWidth, DefaultSpotCount)
      crns           == <<>>
  IN  [splinePath |-> splinePath,
       spaces     |-> spcs,
       corners    |-> crns,
       metadata   |-> updateTrackMetadata(createDefaultTrackMetadata, spcs, crns, 0),
       discretizationSettings |-> [targetSpacesPerLap  |-> raceSegs,
                                   currentSpacesPerLap |-> raceSegs,
                                   trackWidth          |-> DefaultTrackWidth,
                                   spotCount           |-> DefaultSpotCount,
                                   raceLineOffset      |-> 0,
                                   arcLengthSamples    |-> 100,
                                   curvatureThreshold  |-> DefaultCurvatureThreshold],
       validationErrors |-> <<>>,
       isValid    |-> FALSE]

\* { ...trackData, splinePath: { ...trackData.splinePath, points: newPoints } }
WithPoints(td, newPoints) == [td EXCEPT !.splinePath.points = newPoints]

\* newPoints.splice(index, 1) and newPoints.splice(index, 0, point), index
\* 0-based and within the list.
SpliceOut(pts, index) == SubSeq(pts, 1, index) \o SubSeq(pts, index + 2, Len(pts))

SpliceIn(pts, index, point) ==
  SubSeq(pts, 1, index) \o <<point>> \o SubSeq(pts, index + 1, Len(pts))

\* A handle moved by (dx, dy) with its point.
MovedHandle(handle, dx, dy) ==
  IF handle = NoHandle THEN NoHandle ELSE Handle(handle[1].x + dx, handle[1].y + dy)

\* The strokes drawn in the model: three corners of the grid square, and three
\* points in a row; a stroke of two points is a prefix of each.  The clicks and
\* drags of the model go to two corners of the square.
Strokes ==
  { <<Pt(0, 0), Pt(4, 0), Pt(4, 4)>>,
    <<Pt(0, 0), Pt(0, 2), Pt(0, 4)>> }

MouseTargets == {Pt(4, 4), Pt(0, 4)}

\* The counts handed to handleRaceSegmentsChange.
RaceSegmentInputs == {0, MaxSpaces - 1, MaxSpaces}

IsPrefix(a, b) == Len(a) <= Len(b) /\ SubSeq(b, 1, Len(a)) = a

StoreTrack(td) ==
  /\ storedTrackData' = <<td>>
  /\ currentTrack' = <<td>>

NoPipeline ==
  UNCHANGED <<pc, points, target, threshold, spacing, segments, backPoints, spaces,
              corners, track, errors, query, found, spotVars, continuityVars,
              renderVars, serialVars>>

InitEditor ==
  /\ pc = "editor"
  /\ EditorIdle
  /\ CornerEditIdle
  /\ RenderIdle
  /\ SerialIdle
  /\ points = <<>>
  /\ target = 0
  /\ threshold = DefaultCurvatureThreshold
  /\ spacing = DefaultMinCornerSpacing
  /\ segments = <<>>
  /\ backPoints = <<>>
  /\ spaces = <<>>
  /\ corners = <<>>
  /\ track = NoTrack
  /\ errors = <<>>
  /\ query = Zero
  /\ found = NoResult
  /\ SpotsIdle
  /\ ContinuityIdle

\* handleMouseDown, left button: starts a stroke unless a track exists.
HandleMouseDown ==
  /\ storedTrackData = <<>>
  /\ raceSegments <= MaxSpaces
  /\ \E stroke \in Strokes :
       currentPath' = <<stroke[1]>>
  /\ isDrawing' = TRUE
  /\ selectedPointIndex' = NoSelection
  /\ UNCHANGED <<storedTrackData, currentTrack, raceSegments, splineToolMode, edits>>
  /\ NoPipeline
  /\ UNCHANGED cornerEditVars

\* handleMouseMove: the stroke grows by the mouse point.
HandleMouseMove ==
  /\ isDrawing
  /\ \E stroke \in Strokes : \E n \in 1..Len(stroke) :
       /\ IsPrefix(Append(currentPath, stroke[n]), stroke)
       /\ currentPath' = Append(currentPath, stroke[n])
  /\ UNCHANGED <<isDrawing, storedTrackData, currentTrack, raceSegments,
                 selectedPointIndex, splineToolMode, edits>>
  /\ NoPipeline
  /\ UNCHANGED cornerEditVars

\* handleMouseUp: a stroke of fewer than 3 mouse points is dropped; any other
\* becomes the track.
HandleMouseUp ==
  /\ isDrawing
  /\ IF Len(currentPath) < 3
     THEN UNCHANGED <<storedTrackData, currentTrack>>
     ELSE StoreTrack(NewTrackData(currentPath, raceSegments))
  /\ isDrawing' = FALSE
  /\ currentPath' = <<>>
  /\ UNCHANGED <<raceSegments, selectedPointIndex, splineToolMode, edits>>
  /\ NoPipeline
  /\ UNCHANGED cornerEditVars

\* handlePointDrag(pathId, pointIndex, x, y): the point goes to (x, y), its
\* handles go with it.
HandlePointDrag ==
  /\ storedTrackData # <<>>
  /\ edits < MaxEdits
  /\ LET td == storedTrackData[1]
         pts == td.splinePath.points
     IN  \E pointIndex \in 0..(Len(pts) - 1) : \E to \in MouseTargets :
           LET point == pts[pointIndex + 1]
               dx == to.x - point.x
               dy == to.y - point.y
               newPoints == [pts EXCEPT ![pointIndex + 1] =
                               BezierPoint(to.x, to.y,
                                           MovedHandle(point.handleIn, dx, dy),
                                           MovedHandle(point.handleOut, dx, dy))]
           IN  StoreTrack(WithPoints(td, newPoints))
  /\ edits' = edits + 1
  /\ UNCHANGED <<isDrawing, currentPath, raceSegments, selectedPointIndex, splineToolMode>>
  /\ NoPipeline
  /\ UNCHANGED cornerEditVars

\* handleHandleDrag(pathId, pointIndex, type, x, y): the handle goes to (x, y),
\* the opposite handle to its mirror image in the point.
HandleHandleDrag ==
  /\ storedTrackData # <<>>
  /\ edits < MaxEdits
  /\ LET td == storedTrackData[1]
         pts == td.splinePath.points
     IN  \E pointIndex \in 0..(Len(pts) - 1) : \E type \in {"in", "out"} :
         \E to \in MouseTargets :
           LET point  == pts[pointIndex + 1]
               mirror == Handle(2 * point.x - to.x, 2 * point.y - to.y)
               newPoints == [pts EXCEPT ![pointIndex + 1] =
                               IF type = "in"
                               THEN BezierPoint(point.x, point.y, Handle(to.x, to.y), mirror)
                               ELSE BezierPoint(point.x, point.y, mirror, Handle(to.x, to.y))]
           IN  StoreTrack(WithPoints(td, newPoints))
  /\ edits' = edits + 1
  /\ UNCHANGED <<isDrawing, currentPath, raceSegments, selectedPointIndex, splineToolMode>>
  /\ NoPipeline
  /\ UNCHANGED cornerEditVars

\* handleClear
HandleClear ==
  /\ storedTrackData # <<>>
  /\ storedTrackData' = <<>>
  /\ currentTrack' = <<>>
  /\ selectedPointIndex' = NoSelection
  /\ UNCHANGED <<isDrawing, currentPath, raceSegments, splineToolMode, edits>>
  /\ NoPipeline
  /\ UNCHANGED cornerEditVars

\* handlePointClick(pathId, pointIndex): in remove mode the point is removed
\* unless only 3 points are left; in any other mode it is selected.
HandlePointClick ==
  /\ storedTrackData # <<>>
  /\ LET td == storedTrackData[1]
         pts == td.splinePath.points
     IN  \E pointIndex \in 0..(Len(pts) - 1) :
           IF splineToolMode = "remove"
           THEN /\ Len(pts) > 3
                /\ edits < MaxEdits
                /\ StoreTrack(WithPoints(td, SpliceOut(pts, pointIndex)))
                /\ edits' = edits + 1
                /\ UNCHANGED selectedPointIndex
           ELSE /\ selectedPointIndex' = pointIndex
                /\ UNCHANGED <<storedTrackData, currentTrack, edits>>
  /\ UNCHANGED <<isDrawing, currentPath, raceSegments, splineToolMode>>
  /\ NoPipeline
  /\ UNCHANGED cornerEditVars

\* handleSplineToolModeChange(mode)
HandleSplineToolModeChange ==
  /\ \E mode \in {"select", "add", "remove"} :
       /\ splineToolMode' = mode
       /\ selectedPointIndex' = IF mode # "select" THEN NoSelection ELSE selectedPointIndex
  /\ UNCHANGED <<isDrawing, currentPath, storedTrackData, currentTrack, raceSegments, edits>>
  /\ NoPipeline
  /\ UNCHANGED cornerEditVars

\* The insert index handleAddPointAtCoords settles on: one past the first
\* point whose edge to the next point (around the ring) is nearest to (x, y).
\* minDistance is <<>> while it is Infinity, <<d>> once a distance is kept.
RECURSIVE BestInsertIndex(_, _, _, _, _, _)
BestInsertIndex(pts, x, y, i, minDistance, bestInsertIndex) ==
  IF i >= Len(pts) THEN bestInsertIndex
  ELSE LET currentPoint == pts[i + 1]
           nextPoint    == pts[((i + 1) % Len(pts)) + 1]
           dist == distanceToLineSegment(x, y, currentPoint.x, currentPoint.y,
                                         nextPoint.x, nextPoint.y)
       IN  IF minDistance = <<>> \/ RatLess(dist, minDistance[1])
           THEN BestInsertIndex(pts, x, y, i + 1, <<dist>>, i + 1)
           ELSE BestInsertIndex(pts, x, y, i + 1, minDistance, bestInsertIndex)

\* handleAddPointAtCoords(x, y), reached from a click on the path in add mode.
HandleAddPointAtCoords ==
  /\ storedTrackData # <<>>
  /\ splineToolMode = "add"
  /\ edits < MaxEdits
  /\ LET td == storedTrackData[1]
         pts == td.splinePath.points
     IN  /\ Len(pts) < MaxEditorPoints
         /\ \E to \in MouseTargets :
           LET bestInsertIndex == BestInsertIndex(pts, to.x, to.y, 0, <<>>, 0)
               prevPoint == IF bestInsertIndex >= 1 THEN pts[bestInsertIndex]
                            ELSE pts[Len(pts)]
               nextPoint == pts[(bestInsertIndex % Len(pts)) + 1]
               tangentX  == Quarter(nextPoint.x - prevPoint.x)
               tangentY  == Quarter(nextPoint.y - prevPoint.y)
               newPoint  == BezierPoint(to.x, to.y,
                                        Handle(to.x - tangentX, to.y - tangentY),
                                        Handle(to.x + tangentX, to.y + tangentY))
           IN  /\ StoreTrack(WithPoints(td, SpliceIn(pts, bestInsertIndex, newPoint)))
               /\ selectedPointIndex' = bestInsertIndex
  /\ edits' = edits + 1
  /\ UNCHANGED <<isDrawing, currentPath, raceSegments, splineToolMode>>
  /\ NoPipeline
  /\ UNCHANGED cornerEditVars

\* handleRemoveSelectedPoint
HandleRemoveSelectedPoint ==
  /\ storedTrackData # <<>>
  /\ edits < MaxEdits
  /\ LET td == storedTrackData[1]
         pts == td.splinePath.points
     IN  /\ Len(pts) > 3
         /\ selectedPointIndex # NoSelection
         /\ StoreTrack(WithPoints(td, SpliceOut(pts, selectedPointIndex)))
  /\ selectedPointIndex' = NoSelection
  /\ edits' = edits + 1
  /\ UNCHANGED <<isDrawing, currentPath, raceSegments, splineToolMode>>
  /\ NoPipeline
  /\ UNCHANGED cornerEditVars

\* handleRaceSegmentsChange(newSegments): the target count is kept; the track,
\* if there is one, gets the spaces of its segments for the new count.
HandleRaceSegmentsChange ==
  /\ \E newSegments \in RaceSegmentInputs :
       /\ newSegments # raceSegments
       /\ raceSegments' = newSegments
       /\ IF storedTrackData = <<>>
          THEN UNCHANGED <<storedTrackData, currentTrack>>
          ELSE LET td == storedTrackData[1]
                   bezierSegments ==
                     IF Len(td.splinePath.segments) = 0
                     THEN pointsToBezierSegments(td.splinePath.points, "C1")
                     ELSE td.splinePath.segments
                   newSpaces == discretizePathToSpaces(bezierSegments, newSegments,
                                                       DefaultTrackWidth, DefaultSpotCount)
               IN  StoreTrack(
                     [td EXCEPT
                        !.spaces = newSpaces,
                        !.corners = <<>>,
                        !.discretizationSettings.targetSpacesPerLap = newSegments,
                        !.discretizationSettings.currentSpacesPerLap = newSegments,
                        !.metadata = updateTrackMetadata(td.metadata, newSpaces, <<>>, 0)])
  /\ UNCHANGED <<isDrawing, currentPath, selectedPointIndex, splineToolMode, edits>>
  /\ NoPipeline
  /\ UNCHANGED cornerEditVars

NextEditor ==
  \/ HandleMouseDown
  \/ HandleMouseMove
  \/ HandleMouseUp
  \/ HandlePointDrag
  \/ HandleHandleDrag
  \/ HandleClear
  \/ HandlePointClick
  \/ HandleSplineToolModeChange
  \/ HandleAddPointAtCoords
  \/ HandleRemoveSelectedPoint
  \/ HandleRaceSegmentsChange

SpecEditor == InitEditor /\ [][NextEditor]_vars

\* C17: in the editor the derived data of the track is never older than its
\* control points: splinePath.points are the points of splinePath.segments,
\* the spaces are the discretization of those segments for the current target
\* count, and every corner lies on one of the spaces.
C17_DerivedDataFollowsControlPoints ==
  storedTrackData # <<>> =>
    LET td == storedTrackData[1]
    IN  /\ td.splinePath.points = bezierSegmentsToPoints(td.splinePath.segments)
        /\ td.spaces = discretizePathToSpaces(td.splinePath.segments, raceSegments,
                                              DefaultTrackWidth, DefaultSpotCount)
        /\ \A i \in 1..Len(td.corners) : td.corners[i].spaceIndex < Len(td.spaces)

\* C18: the track the editor holds carries its own validation result:
\* isValid is true exactly when validationErrors is empty, and
\* validationErrors is what validateTrackData reports for the track.
C18_HeldTrackCarriesItsValidation ==
  storedTrackData # <<>> =>
    LET td == storedTrackData[1]
    IN  /\ td.isValid <=> (td.validationErrors = <<>>)
        /\ td.validationErrors = validateTrackData(td)

\* C19: autoSuggestCorners packs greedily.  Every Corner lies on a Space whose
\* curvature is above the threshold; the first Space of the greatest curvature
\* above the threshold is a Corner; and every Space above the threshold that
\* is no Corner has a Corner of at least its curvature fewer than
\* minCornerSpacing indices away.
C19_GreedyPacking ==
  pc = "corners" =>
    LET Curvature(index) == spaces[index + 1].metadata.curvature
        candidates == {i \in 0..(Len(spaces) - 1) : RatLess(threshold, Curvature(i))}
        accepted   == {corners[c].spaceIndex : c \in 1..Len(corners)}
        greatest   == {i \in candidates :
                         \A j \in candidates : RatLeq(Curvature(j), Curvature(i))}
    IN  /\ accepted \subseteq candidates
        /\ candidates # {} =>
             (CHOOSE i \in greatest : \A j \in greatest : i <= j) \in accepted
        /\ \A i \in candidates \ accepted :
             \E a \in accepted :
                /\ RatLeq(Curvature(i), Curvature(a))
                /\ Abs(i - a) < spacing

\* A ring where a Space above the threshold was turned down for a Corner of
\* greater curvature further along the ring.
C19_Witness ==
  /\ pc = "corners"
  /\ Len(corners) >= 1
  /\ \E i \in 0..(Len(spaces) - 1) :
       /\ RatLess(threshold, spaces[i + 1].metadata.curvature)
       /\ \A c \in 1..Len(corners) : corners[c].spaceIndex # i
       /\ \E c \in 1..Len(corners) :
            /\ corners[c].spaceIndex > i
            /\ RatLess(spaces[i + 1].metadata.curvature,
                       spaces[corners[c].spaceIndex + 1].metadata.curvature)

\* C20: the validator reports self-intersections exactly when two segments
\* that are not neighbours on the closed chain have overlapping bounding boxes
\* of their control points; segment i neighbours segment (i + 1) mod N, so the
\* last and the first segment are neighbours.
C20_SelfIntersectionOnClosedChain ==
  pc = "validated" =>
    LET segs == track.splinePath.segments
        N    == Len(segs)
        Neighbours(i, j) == j = (i % N) + 1 \/ i = (j % N) + 1
    IN  (ErrSelfIntersect \in Range(errors)) <=>
          \E i, j \in 1..N :
             /\ i # j
             /\ ~Neighbours(i, j)
             /\ segmentsIntersect(segs[i], segs[j])

\* ------------------------------------------- the editor's corner handlers
\* trackData.corners.find((c) => c.id === id): the Corners with that id.
CornersWithId(td, id) == SelectSeq(td.corners, LAMBDA c : c.id = id)

\* trackData.spaces.find((s) => s.index === spaceIndex): the Spaces found.
SpacesWithIndex(td, spaceIndex) == SelectSeq(td.spaces, LAMBDA sp : sp.index = spaceIndex)

\* The Corner handleAddCornerAtSpace makes; metadata.raceDirection is a
\* non-empty string, so both sides are "left".
NewCorner(id, space) ==
  [id              |-> id,
   spaceIndex      |-> space.index,
   speedLimit      |-> 5,
   at              |-> space.at,
   isAutoSuggested |-> FALSE,
   innerSide       |-> "left",
   badgeSide       |-> "left",
   cornerType      |-> "medium",
   difficulty      |-> Rat(5, 1),
   suggestedGear   |-> 3,
   heatPenalty     |-> 0,
   entryAngle      |-> 0,
   exitAngle       |-> 0,
   radius          |-> Zero]

\* handleAddCornerAtSpace(spaceIndex) returns early, nothing stored.
AddCornerBlocked(td, spaceIndex) ==
  \/ \E c \in 1..Len(td.corners) : td.corners[c].spaceIndex = spaceIndex
  \/ SpacesWithIndex(td, spaceIndex) = <<>>

\* The track handleAddCornerAtSpace(spaceIndex) stores, the new Corner having
\* the given id.
AddCornerAtSpace(td, spaceIndex, id) ==
  IF AddCornerBlocked(td, spaceIndex) THEN td
  ELSE [td EXCEPT !.corners =
          Append(td.corners, NewCorner(id, SpacesWithIndex(td, spaceIndex)[1]))]

\* The next index without the wrap-around.
ForwardIndexPastTheEnd(currentSpaceIndex, totalSpaces) == currentSpaceIndex + 1

\* newSpaceIndex of handleMoveCornerForward and handleMoveCornerBackward.
ForwardIndex(currentSpaceIndex, totalSpaces) ==
  IF currentSpaceIndex + 1 >= totalSpaces THEN 0 ELSE currentSpaceIndex + 1

BackwardIndex(currentSpaceIndex, totalSpaces) ==
  IF currentSpaceIndex - 1 < 0 THEN totalSpaces - 1 ELSE currentSpaceIndex - 1

\* A move that returns early only for want of a selected Corner or of the Space.
MoveBlockedBySelectionOnly(td, selected, newSpaceIndex) ==
  \/ selected = NoCorner
  \/ SelectSeq(td.corners, LAMBDA c : c.id = selected) = <<>>
  \/ SelectSeq(td.spaces, LAMBDA sp : sp.index = newSpaceIndex) = <<>>

\* The move of the Corner with the selected id to newSpaceIndex returns early.
MoveBlocked(td, selected, newSpaceIndex) ==
  \/ selected = NoCorner
  \/ CornersWithId(td, selected) = <<>>
  \/ \E c \in 1..Len(td.corners) :
        td.corners[c].spaceIndex = newSpaceIndex /\ td.corners[c].id # selected
  \/ SpacesWithIndex(td, newSpaceIndex) = <<>>

\* The track a move of the selected Corner to newSpaceIndex stores.
MoveCornerTo(td, selected, newSpaceIndex) ==
  IF MoveBlocked(td, selected, newSpaceIndex) THEN td
  ELSE [td EXCEPT !.corners =
          [c \in 1..Len(td.corners) |->
             IF td.corners[c].id = selected
             THEN [td.corners[c] EXCEPT !.spaceIndex = newSpaceIndex,
                                        !.at = SpacesWithIndex(td, newSpaceIndex)[1].at]
             ELSE td.corners[c]]]

\* The spaceIndex of the selected Corner, -1 if there is none.
SelectedSpaceIndex(td, selected) ==
  IF CornersWithId(td, selected) = <<>> THEN -1
  ELSE CornersWithId(td, selected)[1].spaceIndex

moveCornerForward(td, selected) ==
  MoveCornerTo(td, selected, ForwardIndex(SelectedSpaceIndex(td, selected), Len(td.spaces)))

moveCornerBackward(td, selected) ==
  MoveCornerTo(td, selected, BackwardIndex(SelectedSpaceIndex(td, selected), Len(td.spaces)))

\* What the corner handlers leave alone.
NoSplineEdit ==
  /\ UNCHANGED <<isDrawing, currentPath, raceSegments, selectedPointIndex,
                 splineToolMode, edits>>
  /\ NoPipeline

\* handleAddCornerAtSpace(spaceIndex): a Corner with a fresh id is added at the
\* Space and selected, unless the Space holds a Corner or does not exist.
HandleAddCornerAtSpace ==
  /\ storedTrackData # <<>>
  /\ nextId <= MaxIds
  /\ \E spaceIndex \in 0..MaxSpaces :
       /\ ~AddCornerBlocked(storedTrackData[1], spaceIndex)
       /\ StoreTrack(AddCornerAtSpace(storedTrackData[1], spaceIndex, nextId))
  /\ selectedCorner' = nextId
  /\ nextId' = nextId + 1
  /\ UNCHANGED <<editingMode, cornerToolMode>>
  /\ NoSplineEdit

\* handleAddCornerAtCoords(x, y): findNearestSpace gives the index of the Space
\* nearest to the click, any Space of the track for some click, and
\* handleAddCornerAtSpace is called with it.
HandleAddCornerAtCoords ==
  /\ storedTrackData # <<>>
  /\ nextId <= MaxIds
  /\ \E n \in 1..Len(storedTrackData[1].spaces) :
       LET nearestSpaceIndex == storedTrackData[1].spaces[n].index
       IN  /\ ~AddCornerBlocked(storedTrackData[1], nearestSpaceIndex)
           /\ StoreTrack(AddCornerAtSpace(storedTrackData[1], nearestSpaceIndex, nextId))
  /\ selectedCorner' = nextId
  /\ nextId' = nextId + 1
  /\ UNCHANGED <<editingMode, cornerToolMode>>
  /\ NoSplineEdit

\* handleCornerClick(cornerId) on the badge of a Corner: removes it in remove
\* mode, selects it in select mode.
HandleCornerClick ==
  /\ storedTrackData # <<>>
  /\ editingMode = "corners"
  /\ LET td == storedTrackData[1]
     IN  \E c \in 1..Len(td.corners) :
           LET cornerId == td.corners[c].id
           IN  IF cornerToolMode = "remove"
               THEN /\ StoreTrack([td EXCEPT !.corners =
                                     SelectSeq(td.corners, LAMBDA k : k.id # cornerId)])
                    /\ selectedCorner' = NoCorner
               ELSE /\ cornerToolMode = "select"
                    /\ selectedCorner' = cornerId
                    /\ UNCHANGED <<storedTrackData, currentTrack>>
  /\ UNCHANGED <<editingMode, cornerToolMode, nextId>>
  /\ NoSplineEdit

\* The updates the toolbar hands to handleUpdateCorner: a speed limit or a side.
CornerUpdates == {<<"speedLimit", 3>>, <<"innerSide", "left">>, <<"innerSide", "right">>}

\* { ...c, ...updates }
WithUpdates(c, updates) ==
  IF updates[1] = "speedLimit" THEN [c EXCEPT !.speedLimit = updates[2]]
  ELSE [c EXCEPT !.innerSide = updates[2]]

\* handleUpdateCorner(updates)
HandleUpdateCorner ==
  /\ storedTrackData # <<>>
  /\ selectedCorner # NoCorner
  /\ \E updates \in CornerUpdates :
       LET td == storedTrackData[1]
       IN  StoreTrack([td EXCEPT !.corners =
                         [c \in 1..Len(td.corners) |->
                            IF td.corners[c].id = selectedCorner
                            THEN WithUpdates(td.corners[c], updates)
                            ELSE td.corners[c]]])
  /\ UNCHANGED cornerEditVars
  /\ NoSplineEdit

\* handleMoveCornerBackward
HandleMoveCornerBackward ==
  /\ storedTrackData # <<>>
  /\ LET td == storedTrackData[1]
     IN  /\ ~MoveBlocked(td, selectedCorner,
                         BackwardIndex(SelectedSpaceIndex(td, selectedCorner), Len(td.spaces)))
         /\ StoreTrack(moveCornerBackward(td, selectedCorner))
  /\ UNCHANGED cornerEditVars
  /\ NoSplineEdit

\* handleMoveCornerForward
HandleMoveCornerForward ==
  /\ storedTrackData # <<>>
  /\ LET td == storedTrackData[1]
     IN  /\ ~MoveBlocked(td, selectedCorner,
                         ForwardIndex(SelectedSpaceIndex(td, selectedCorner), Len(td.spaces)))
         /\ StoreTrack(moveCornerForward(td, selectedCorner))
  /\ UNCHANGED cornerEditVars
  /\ NoSplineEdit

\* handleStartFinishClick(spaceIndex) on a Space of the track drawn.
HandleStartFinishClick ==
  /\ storedTrackData # <<>>
  /\ editingMode = "metadata"
  /\ LET td == storedTrackData[1]
     IN  \E n \in 1..Len(td.spaces) :
           StoreTrack([td EXCEPT !.metadata.startFinishSpaceIndex = td.spaces[n].index])
  /\ UNCHANGED cornerEditVars
  /\ NoSplineEdit

\* handleEditingModeChange(mode)
HandleEditingModeChange ==
  /\ \E mode \in {"spline", "corners", "metadata", "appearance"} :
       editingMode' = mode
  /\ selectedCorner' = NoCorner
  /\ selectedPointIndex' = NoSelection
  /\ UNCHANGED <<cornerToolMode, nextId>>
  /\ UNCHANGED <<isDrawing, currentPath, storedTrackData, currentTrack, raceSegments,
                 splineToolMode, edits>>
  /\ NoPipeline

\* handleCornerToolModeChange(mode)
HandleCornerToolModeChange ==
  /\ \E mode \in {"select", "add", "remove"} :
       /\ cornerToolMode' = mode
       /\ selectedCorner' = IF mode # "select" THEN NoCorner ELSE selectedCorner
  /\ UNCHANGED <<editingMode, nextId>>
  /\ UNCHANGED editorVars
  /\ NoPipeline

\* The editor with its drawing, space count and corner events.
NextCornerEditing ==
  \/ HandleMouseDown
  \/ HandleMouseMove
  \/ HandleMouseUp
  \/ HandleRaceSegmentsChange
  \/ HandleAddCornerAtSpace
  \/ HandleAddCornerAtCoords
  \/ HandleCornerClick
  \/ HandleUpdateCorner
  \/ HandleMoveCornerBackward
  \/ HandleMoveCornerForward
  \/ HandleStartFinishClick
  \/ HandleEditingModeChange
  \/ HandleCornerToolModeChange

SpecCornerEditing == InitEditor /\ [][NextCornerEditing]_vars

\* C21: in the editor no two Corners of the track lie on the same Space, and
\* an add or a move whose target Space holds another Corner stores nothing new.
C21_OneCornerPerSpace ==
  storedTrackData # <<>> =>
    LET td == storedTrackData[1]
        Occupied(spaceIndex, but) ==
          \E c \in 1..Len(td.corners) :
             td.corners[c].spaceIndex = spaceIndex /\ td.corners[c].id # but
        here == SelectedSpaceIndex(td, selectedCorner)
    IN  /\ \A c, k \in 1..Len(td.corners) :
             c # k => td.corners[c].spaceIndex # td.corners[k].spaceIndex
        /\ \A spaceIndex \in 0..MaxSpaces :
             Occupied(spaceIndex, NoCorner) => AddCornerAtSpace(td, spaceIndex, nextId) = td
        /\ Occupied(ForwardIndex(here, Len(td.spaces)), selectedCorner)
             => moveCornerForward(td, selectedCorner) = td
        /\ Occupied(BackwardIndex(here, Len(td.spaces)), selectedCorner)
             => moveCornerBackward(td, selectedCorner) = td

\* Two Corners on neighbouring Spaces, one of them selected: its move towards
\* the other is blocked.
C21_Witness ==
  /\ storedTrackData # <<>>
  /\ Len(storedTrackData[1].corners) = 2
  /\ selectedCorner # NoCorner
  /\ LET td == storedTrackData[1]
         here == SelectedSpaceIndex(td, selectedCorner)
     IN  /\ here >= 0
         /\ \E c \in 1..2 :
              /\ td.corners[c].id # selectedCorner
              /\ td.corners[c].spaceIndex = ForwardIndex(here, Len(td.spaces))

\* C25: in the editor the start/finish line of the track is on one of its
\* Spaces, 0 <= startFinishSpaceIndex < spaces.length, so the validator has no
\* start/finish error to report.
C25_StartFinishOnTheTrack ==
  storedTrackData # <<>> =>
    LET td == storedTrackData[1]
    IN  /\ 0 <= td.metadata.startFinishSpaceIndex
        /\ td.metadata.startFinishSpaceIndex < Len(td.spaces)
        /\ ErrStartFinish \notin Range(validateTrackData(td))

\* C30: a move of the selected Corner forward and then backward, or backward
\* and then forward, puts it back on its Space with its position, whenever no
\* other Corner holds the Space of the first move.  Forward from the last Space
\* goes to Space 0, backward from Space 0 to the last Space, and every Corner
\* lies on a Space index in 0..spaces.length - 1.
C30_MoveThereAndBack ==
  storedTrackData # <<>> =>
    LET td    == storedTrackData[1]
        total == Len(td.spaces)
        Occupied(spaceIndex) ==
          \E c \in 1..Len(td.corners) :
             td.corners[c].spaceIndex = spaceIndex /\ td.corners[c].id # selectedCorner
        Selected(t) == CornersWithId(t, selectedCorner)[1]
        here    == SelectedSpaceIndex(td, selectedCorner)
        forward == moveCornerForward(td, selectedCorner)
        backward == moveCornerBackward(td, selectedCorner)
    IN  /\ \A c \in 1..Len(td.corners) :
             td.corners[c].spaceIndex \in 0..(total - 1)
        /\ (here >= 0 /\ ~Occupied(ForwardIndex(here, total))) =>
             /\ Selected(forward).spaceIndex = (here + 1) % total
             /\ Selected(moveCornerBackward(forward, selectedCorner)).spaceIndex = here
             /\ Selected(moveCornerBackward(forward, selectedCorner)).at = Selected(td).at
        /\ (here >= 0 /\ ~Occupied(BackwardIndex(here, total))) =>
             /\ Selected(backward).spaceIndex = (here + total - 1) % total
             /\ Selected(moveCornerForward(backward, selectedCorner)).spaceIndex = here
             /\ Selected(moveCornerForward(backward, selectedCorner)).at = Selected(td).at

\* The selected Corner is on the last of several Spaces, another Corner is on
\* the track, and Space 0 is free.
C30_Witness ==
  /\ storedTrackData # <<>>
  /\ LET td == storedTrackData[1]
     IN  /\ Len(td.spaces) >= 2
         /\ Len(td.corners) = 2
         /\ SelectedSpaceIndex(td, selectedCorner) = Len(td.spaces) - 1
         /\ \A c \in 1..Len(td.corners) : td.corners[c].spaceIndex # 0

\* ------------------------------------------ RaceTrack's inner side arcs
\* [...corners].sort((a, b) => a.spaceIndex - b.spaceIndex): a stable sort by
\* ascending spaceIndex.
SortBySpaceIndex(crns) ==
  LET RECURSIVE Insert(_, _)
      Insert(sorted, i) ==
        IF i > Len(crns) THEN sorted
        ELSE LET c == crns[i]
                 k == Cardinality({j \in 1..Len(sorted) :
                                     sorted[j].spaceIndex <= c.spaceIndex})
             IN  Insert(SubSeq(sorted, 1, k) \o <<c>> \o SubSeq(sorted, k + 1, Len(sorted)),
                        i + 1)
  IN  Insert(<<>>, 1)

buildInnerSideSegments(closed, crns) ==
  IF ~closed \/ Len(crns) = 0 THEN <<>>
  ELSE LET sortedCorners == SortBySpaceIndex(crns)
       IN  [index \in 1..Len(sortedCorners) |->
              LET corner     == sortedCorners[index]
                  nextCorner == sortedCorners[(index % Len(sortedCorners)) + 1]
              IN  [startSpace |-> corner.spaceIndex,
                   endSpace   |-> nextCorner.spaceIndex,
                   side       |-> corner.innerSide]]

\* (spaceIndex - 0.5) * segmentArcLength
HalfSpaceBefore(spaceIndex, segmentArcLength) ==
  Rat((2 * spaceIndex - 1) * segmentArcLength, 2)

\* buildInnerSidePaths(segments, bezierSegments, segmentArcLength,
\* totalArcLength, spacesCount, halfTrackWidth) over a chain that is not
\* empty: for each arc the distances, the section length and the space count
\* it samples the path with; the sampled points are left out.
buildInnerSidePaths(arcs, segmentArcLength, totalArcLength, spacesCount) ==
  IF Len(arcs) = 0 \/ segmentArcLength = 0 THEN <<>>
  ELSE [index \in 1..Len(arcs) |->
          LET segment == arcs[index]
              startDistance == HalfSpaceBefore(segment.startSpace, segmentArcLength)
              endDistance ==
                IF segment.endSpace < segment.startSpace
                THEN RatAdd(Rat(totalArcLength, 1),
                            HalfSpaceBefore(segment.endSpace, segmentArcLength))
                ELSE HalfSpaceBefore(segment.endSpace, segmentArcLength)
          IN  [startDistance |-> startDistance,
               endDistance   |-> endDistance,
               sectionLength |-> RatAdd(endDistance, Rat(-startDistance.num, startDistance.den)),
               numSpaces     |-> IF segment.endSpace > segment.startSpace
                                 THEN segment.endSpace - segment.startSpace
                                 ELSE spacesCount - segment.startSpace + segment.endSpace,
               side          |-> segment.side]]

\* A Corner drawn on the track: its Space and its inner side.
LapCorner(spaceIndex, side) ==
  [spaceIndex |-> spaceIndex, innerSide |-> side]

\* The corner lists drawn: up to MaxLapCorners Corners in any order, no two on
\* one Space of a lap of spacesCount Spaces.
LapCorners(spacesCount) ==
  { crns \in BoundedSeqs({LapCorner(i, sd) : i \in 0..(spacesCount - 1),
                                            sd \in {"left", "right"}}, MaxLapCorners) :
      \A c, k \in 1..Len(crns) : c # k => crns[c].spaceIndex # crns[k].spaceIndex }

\* The lengths of a Space on the lap.
SpaceLengths == {3, 10}

InitInnerSide ==
  /\ pc = "lap"
  /\ givenClosed \in BOOLEAN
  /\ givenSpacesCount \in 1..MaxLapSpaces
  /\ givenCorners \in LapCorners(givenSpacesCount)
  /\ givenSpaceLength \in SpaceLengths
  /\ innerSideSegments = <<>>
  /\ innerSidePaths = <<>>
  /\ points = <<>>
  /\ target = 0
  /\ threshold = DefaultCurvatureThreshold
  /\ spacing = DefaultMinCornerSpacing
  /\ segments = <<>>
  /\ backPoints = <<>>
  /\ spaces = <<>>
  /\ corners = <<>>
  /\ track = NoTrack
  /\ errors = <<>>
  /\ query = Zero
  /\ found = NoResult
  /\ SpotsIdle
  /\ ContinuityIdle
  /\ EditorIdle
  /\ CornerEditIdle
  /\ SerialIdle

NoTrackWork ==
  UNCHANGED <<points, target, threshold, spacing, segments, backPoints, spaces,
              corners, track, errors, query, found, spotVars, continuityVars, editorVars,
              cornerEditVars, serialVars>>

\* useMemo(() => buildInnerSideSegments(closed, corners))
BuildInnerSideSegments ==
  /\ pc = "lap"
  /\ innerSideSegments' = buildInnerSideSegments(givenClosed, givenCorners)
  /\ pc' = "arcs"
  /\ UNCHANGED <<givenClosed, givenCorners, givenSpacesCount, givenSpaceLength,
                 innerSidePaths>>
  /\ NoTrackWork

\* useMemo(() => buildInnerSidePaths(innerSideSegments, ...)), the total arc
\* length being that of spaces.length Spaces.
BuildInnerSidePaths ==
  /\ pc = "arcs"
  /\ innerSidePaths' = buildInnerSidePaths(innerSideSegments, givenSpaceLength,
                                           givenSpaceLength * givenSpacesCount,
                                           givenSpacesCount)
  /\ pc' = "sections"
  /\ UNCHANGED <<givenClosed, givenCorners, givenSpacesCount, givenSpaceLength,
                 innerSideSegments>>
  /\ NoTrackWork

NextInnerSide ==
  \/ BuildInnerSideSegments
  \/ BuildInnerSidePaths

SpecInnerSide == InitInnerSide /\ [][NextInnerSide]_vars

\* C22: on a closed track with Corners, buildInnerSideSegments gives one arc per
\* Corner, from it to the next Corner in ascending spaceIndex order around the
\* ring, with its innerSide; the space counts of the arcs sum to the number of
\* Spaces and their section lengths to the total arc length.
C22_ArcsCoverTheLapOnce ==
  (pc = "sections" /\ givenClosed /\ Len(givenCorners) >= 1) =>
    LET n == Len(givenCorners)
        RECURSIVE SumSpaces(_)
        SumSpaces(i) == IF i = 0 THEN 0 ELSE innerSidePaths[i].numSpaces + SumSpaces(i - 1)
        RECURSIVE SumLengths(_)
        SumLengths(i) ==
          IF i = 0 THEN Zero ELSE RatAdd(innerSidePaths[i].sectionLength, SumLengths(i - 1))
    IN  /\ Len(innerSideSegments) = n
        /\ Len(innerSidePaths) = n
        /\ \A c \in 1..n :
             \E a \in 1..n :
                /\ innerSideSegments[a].startSpace = givenCorners[c].spaceIndex
                /\ innerSideSegments[a].side = givenCorners[c].innerSide
                /\ innerSideSegments[a].endSpace = innerSideSegments[(a % n) + 1].startSpace
                /\ a < n => innerSideSegments[a].startSpace < innerSideSegments[a].endSpace
        /\ SumSpaces(n) = givenSpacesCount
        /\ RatEq(SumLengths(n), Rat(givenSpaceLength * givenSpacesCount, 1))

\* ------------------------------------ the attributes of suggested Corners
\* The curvatures of the Space analysed: 0 to 0.4 in steps of 0.005, and two
\* sharp bends beyond.
CurvatureGrid ==
  {Rat(k, 200) : k \in 0..MaxCurvatureSteps} \cup {One, Rat(50, 1)}

\* Thresholds: below every curvature, and the default.
BandThresholds == {Rat(-1, 100), DefaultCurvatureThreshold}

InitBands ==
  /\ pc = "spaces"
  /\ \E curvature \in CurvatureGrid : spaces = <<InputSpace(0, curvature, GoodSpots)>>
  /\ threshold \in BandThresholds
  /\ spacing = DefaultMinCornerSpacing
  /\ points = <<>>
  /\ target = 1
  /\ segments = <<>>
  /\ backPoints = <<>>
  /\ corners = <<>>
  /\ track = NoTrack
  /\ errors = <<>>
  /\ query = Zero
  /\ found = NoResult
  /\ SpotsIdle
  /\ ContinuityIdle
  /\ EditorIdle
  /\ CornerEditIdle
  /\ RenderIdle
  /\ SerialIdle

NextBands == SuggestCorners

SpecBands == InitBands /\ [][NextBands]_vars

\* The least speedLimit of a corner type.
TypeFloor(cornerType) ==
  CASE cornerType = "slow"    -> 1
    [] cornerType = "medium"  -> 2
    [] cornerType = "fast"    -> 3
    [] cornerType = "chicane" -> 2

\* The factor of the curvature in the speedLimit formula of a corner type.
TypeSlope(cornerType) ==
  CASE cornerType = "slow"    -> 20
    [] cornerType = "medium"  -> 15
    [] cornerType = "fast"    -> 10
    [] cornerType = "chicane" -> 12

\* C23: a suggested Corner has the cornerType of its curvature band (slow above
\* 0.3, medium above 0.15, fast above 0.05, chicane otherwise), a whole
\* speedLimit floor(6 - curvature * slope) of that type, not below the type's
\* floor, and no greater curvature gets a greater speedLimit.
C23_TypeBandsAndSpeedLimit ==
  pc = "corners" =>
    \A c \in 1..Len(corners) :
       LET corner    == corners[c]
           curvature == spaces[corner.spaceIndex + 1].metadata.curvature
           band == IF curvature.num * 10 > 3 * curvature.den THEN "slow"
                   ELSE IF curvature.num * 100 > 15 * curvature.den THEN "medium"
                   ELSE IF curvature.num * 100 > 5 * curvature.den THEN "fast"
                   ELSE "chicane"
           linear == (6 * curvature.den - TypeSlope(band) * curvature.num) \div curvature.den
       IN  /\ corner.cornerType = band
           /\ corner.speedLimit \in Int
           /\ corner.speedLimit >= TypeFloor(band)
           /\ corner.speedLimit = Max(TypeFloor(band), linear)
           /\ \A more \in CurvatureGrid :
                RatLeq(curvature, more) =>
                  calculateSpeedLimit(more, determineCornerType(more)) <= corner.speedLimit

\* A Corner suggested on the upper edge of the medium band.
C23_Witness ==
  /\ pc = "corners"
  /\ Len(corners) = 1
  /\ spaces[1].metadata.curvature = Rat(3, 10)
  /\ corners[1].cornerType = "medium"

\* C28: the attributes of a suggested Corner are in their ranges: speedLimit a
\* whole number in 1..6, which the validator accepts, suggestedGear equal to
\* speedLimit, heatPenalty = max(1, 6 - speedLimit) in 1..5, difficulty in
\* 1..10.
C28_AttributesInRange ==
  pc = "corners" =>
    \A c \in 1..Len(corners) :
       LET corner == corners[c]
       IN  /\ corner.speedLimit \in 1..6
           /\ ~(corner.speedLimit < 1 \/ corner.speedLimit > 6)
           /\ corner.suggestedGear = corner.speedLimit
           /\ corner.heatPenalty = Max(1, 6 - corner.speedLimit)
           /\ corner.heatPenalty \in 1..5
           /\ RatLeq(One, corner.difficulty)
           /\ RatLeq(corner.difficulty, Rat(10, 1))

\* A Corner suggested on a straight Space, curvature 0, with speedLimit 6.
C28_Witness ==
  /\ pc = "corners"
  /\ Len(corners) = 1
  /\ spaces[1].metadata.curvature = Zero
  /\ corners[1].speedLimit = 6

\* ------------------------------------ findTForDistance along a lap of Spaces
\* The distances asked of findTForDistance for a lap of k Spaces of length
\* total / k: i * length by discretizePathToSpaces (j = 2i), (i - 0.5) * length
\* and (i + 0.5) * length by the renderer (j = 2i - 1, 2i + 1), i from 0 to k.
LapDistances(segs, k) ==
  LET total == calculateChainArcLength(segs, Samples)
  IN  {Rat(j * total, 2 * k) : j \in -1..(2 * k + 1)}

InitFind ==
  /\ pc = "chain"
  /\ points \in BoundedSeqs(ControlPoints, MaxPoints)
  /\ target \in 1..MaxSpaces
  /\ segments = pointsToBezierSegments(points, "C1")
  /\ threshold = DefaultCurvatureThreshold
  /\ spacing = DefaultMinCornerSpacing
  /\ backPoints = <<>>
  /\ spaces = <<>>
  /\ corners = <<>>
  /\ track = NoTrack
  /\ errors = <<>>
  /\ query = Zero
  /\ found = NoResult
  /\ SpotsIdle
  /\ ContinuityIdle
  /\ EditorIdle
  /\ CornerEditIdle
  /\ RenderIdle
  /\ SerialIdle

\* findTForDistance(segments, targetDistance) for a distance of the lap.
FindTOnLap ==
  /\ pc = "chain"
  /\ \E q \in LapDistances(segments, target) :
       /\ query' = q
       /\ found' = findTForDistance(segments, q.num, q.den, Samples)
  /\ pc' = "found"
  /\ UNCHANGED <<points, target, threshold, spacing, segments, backPoints, spaces,
                 corners, track, errors>>
  /\ UNCHANGED restVars

NextFind == FindTOnLap

SpecFind == InitFind /\ [][NextFind]_vars

\* C24: for a chain that is not empty and any distance, negative ones and ones
\* past the end included, findTForDistance returns a segmentIndex in 0..N - 1
\* and a t in [0, 1].
C24_ResultOnTheChain ==
  (pc = "found" /\ Len(segments) >= 1) =>
    /\ found.segmentIndex \in 0..(Len(segments) - 1)
    /\ RatLeq(Zero, found.t)
    /\ RatLeq(found.t, One)

\* C29: for distances 0 <= d1 <= d2 <= chain length, findTForDistance(d1) is
\* not after findTForDistance(d2) in the lexicographic order of
\* (segmentIndex, t): neither in a later segment nor in the same segment at a
\* greater t, compared as the program compares numbers.
C29_FartherIsNotEarlier ==
  LET total == calculateChainArcLength(segments, Samples)
  IN  (pc = "found" /\ RatLeq(Zero, query) /\ RatLeq(query, Rat(total, 1))) =>
        \A d2 \in LapDistances(segments, target) :
           (RatLeq(query, d2) /\ RatLeq(d2, Rat(total, 1))) =>
             LET later == findTForDistance(segments, d2.num, d2.den, Samples)
             IN  ~ \/ found.segmentIndex > later.segmentIndex
                   \/ /\ found.segmentIndex = later.segmentIndex
                      /\ RatLess(later.t, found.t)

\* A distance inside the chain found in the second segment or later, with a
\* farther distance of the lap in the same segment at a greater t.
C29_Witness ==
  /\ pc = "found"
  /\ RatLess(Zero, query)
  /\ found.segmentIndex >= 1
  /\ RatLess(Zero, found.t)
  /\ \E d2 \in LapDistances(segments, target) :
       /\ RatLess(query, d2)
       /\ RatLeq(d2, Rat(calculateChainArcLength(segments, Samples), 1))
       /\ LET later == findTForDistance(segments, d2.num, d2.den, Samples)
          IN  /\ later.segmentIndex = found.segmentIndex
              /\ RatLess(found.t, later.t)

\* ------------------------------------------- end points under continuity
\* The startPoint and endPoint coordinates the segments of an array have.
EndPointValues(chain, objects, hp) ==
  [i \in 1..Len(chain) |->
     [startPoint |-> hp[objects[chain[i]].startPoint],
      endPoint   |-> hp[objects[chain[i]].endPoint]]]

\* C26: enforceContinuity, with any combination of enforceC1 and enforceC2,
\* leaves the coordinates of every segment's startPoint and endPoint as they
\* were, in the array it returns and in the array it was handed, also when a
\* segment's cp1 or cp2 is the very object that is its startPoint or endPoint.
C26_EndPointsStayPut ==
  pc = "continuous" =>
    /\ EndPointValues(returnedChain, segmentObjects, heap)
         = EndPointValues(givenChain, SegmentObjects(points), PointObjects(points))
    /\ EndPointValues(givenChain, segmentObjects, heap)
         = EndPointValues(givenChain, SegmentObjects(points), PointObjects(points))

\* ------------------------------------------------- legacy export / import
\* A value after JSON.stringify and JSON.parse is the value without the
\* properties that were undefined; a text is held here as the value it parses
\* to.

\* exportLegacyFormat(trackData): the track with the legacy points array and
\* `segments: undefined`, which JSON.stringify leaves out.
exportLegacyFormat(trackData) ==
  [splinePath |-> [f \in (DOMAIN trackData.splinePath) \ {"segments"} |->
                     trackData.splinePath[f]],
   spaces     |-> trackData.spaces,
   corners    |-> trackData.corners,
   metadata   |-> trackData.metadata,
   discretizationSettings |-> trackData.discretizationSettings]

\* exportTrackData(trackData, 'legacy')
exportTrackData(trackData) == exportLegacyFormat(trackData)

\* The Corner importLegacyFormat makes of a legacy corner: innerSide defaults
\* to "left", badgeSide to the corner's innerSide or "left".
MigratedCorner(corner) ==
  LET innerSide == IF "innerSide" \in DOMAIN corner THEN corner.innerSide ELSE "left"
      badgeSide == IF "badgeSide" \in DOMAIN corner THEN corner.badgeSide ELSE innerSide
  IN  [f \in DOMAIN corner \cup {"innerSide", "badgeSide"} |->
         IF f = "innerSide" THEN innerSide
         ELSE IF f = "badgeSide" THEN badgeSide
         ELSE corner[f]]

\* importLegacyFormat(legacyData): segments are made of the points when the
\* data has points and no segments, corners are migrated, and the track is
\* validated.
importLegacyFormat(legacyData) ==
  LET given      == legacyData.splinePath
      splinePath == IF "points" \in DOMAIN given /\ "segments" \notin DOMAIN given
                    THEN [f \in DOMAIN given \cup {"segments"} |->
                            IF f = "segments" THEN pointsToBezierSegments(given.points, "C1")
                            ELSE given[f]]
                    ELSE given
      trackData  == [splinePath |-> splinePath,
                     spaces     |-> legacyData.spaces,
                     corners    |-> [i \in 1..Len(legacyData.corners) |->
                                       MigratedCorner(legacyData.corners[i])],
                     metadata   |-> legacyData.metadata,
                     discretizationSettings |-> legacyData.discretizationSettings]
      validationErrors == validateTrackData(trackData)
  IN  [splinePath |-> trackData.splinePath,
       spaces     |-> trackData.spaces,
       corners    |-> trackData.corners,
       metadata   |-> trackData.metadata,
       discretizationSettings |-> trackData.discretizationSettings,
       validationErrors |-> validationErrors,
       isValid    |-> Len(validationErrors) = 0]

\* importTrackData(data, 'legacy')
importTrackData(data) == importLegacyFormat(data)

\* Corner lists of saved tracks: none, a corner from before the sides
\* existed, a corner with an inner side only.
SavedCornerLists ==
  { <<>>,
    << [spaceIndex |-> 0, speedLimit |-> 5] >>,
    << [spaceIndex |-> 0, speedLimit |-> 5, innerSide |-> "right"] >> }

\* A track whose spline path is
\* createSplinePathFromSegments(pointsToBezierSegments(points)).
SavedTrack(pts, crns) ==
  [splinePath |-> createSplinePathFromSegments(pointsToBezierSegments(pts, "C1"), TRUE),
   spaces     |-> <<>>,
   corners    |-> crns,
   metadata   |-> createDefaultTrackMetadata,
   discretizationSettings |-> [targetSpacesPerLap  |-> 50,
                               currentSpacesPerLap |-> 50,
                               trackWidth          |-> DefaultTrackWidth,
                               spotCount           |-> DefaultSpotCount,
                               raceLineOffset      |-> 0,
                               arcLengthSamples    |-> 100,
                               curvatureThreshold  |-> DefaultCurvatureThreshold],
   validationErrors |-> <<>>,
   isValid    |-> FALSE]

InitSerial ==
  /\ pc = "saved"
  /\ points \in BoundedSeqs(ControlPoints, MaxPoints)
  /\ \E crns \in SavedCornerLists : track = SavedTrack(points, crns)
  /\ segments = track.splinePath.segments
  /\ corners = track.corners
  /\ target = 0
  /\ threshold = DefaultCurvatureThreshold
  /\ spacing = DefaultMinCornerSpacing
  /\ backPoints = <<>>
  /\ spaces = <<>>
  /\ errors = <<>>
  /\ query = Zero
  /\ found = NoResult
  /\ SpotsIdle
  /\ ContinuityIdle
  /\ EditorIdle
  /\ CornerEditIdle
  /\ RenderIdle
  /\ SerialIdle

NoSerialWork ==
  UNCHANGED <<points, target, threshold, spacing, segments, backPoints, spaces,
              corners, track, errors, query, found, spotVars, continuityVars, editorVars,
              cornerEditVars, renderVars>>

\* data = exportTrackData(track, 'legacy')
ExportTrackData ==
  /\ pc = "saved"
  /\ exportedData' = exportTrackData(track)
  /\ pc' = "exported"
  /\ UNCHANGED importedTrack
  /\ NoSerialWork

\* importTrackData(data, 'legacy')
ImportTrackData ==
  /\ pc = "exported"
  /\ importedTrack' = importTrackData(exportedData)
  /\ pc' = "imported"
  /\ UNCHANGED exportedData
  /\ NoSerialWork

NextSerial == ExportTrackData \/ ImportTrackData

SpecSerial == InitSerial /\ [][NextSerial]_vars

\* C27: exporting a track built by
\* createSplinePathFromSegments(pointsToBezierSegments(points)) in the legacy
\* format and importing the text in the legacy format yields a spline path
\* with as many segments as the track had, each with the start point, end
\* point and control points of the segment in its place.
C27_LegacyRoundTripKeepsSegments ==
  pc = "imported" =>
    LET before == track.splinePath.segments
        after  == importedTrack.splinePath.segments
    IN  /\ Len(after) = Len(before)
        /\ \A i \in 1..Len(before) :
             /\ AsPoint(after[i].startPoint) = AsPoint(before[i].startPoint)
             /\ AsPoint(after[i].endPoint) = AsPoint(before[i].endPoint)
             /\ after[i].cp1 = before[i].cp1
             /\ after[i].cp2 = before[i].cp2

====
